---------------------------- MODULE Spec2Model ----------------------------
(***************************************************************************)
(* Model of the prepst backend's mastery tracking (BKTService), session    *)
(* packing (StudyPlanService) and adaptive mock exam (MockExamService).    *)
(*                                                                         *)
(* Probabilities are integers in units of 1e-4 (the store keeps            *)
(* round(x, 4)); the BKT parameters are integers in units of 1e-2.         *)
(***************************************************************************)
EXTENDS Integers, Naturals, Sequences, FiniteSets, TLC

VARIABLES
    user_skill_mastery,   \* the rows of table user_skill_mastery for one (user, skill)
    learning_events,      \* event types inserted by the latest update_mastery
    wpc,                  \* per worker: position inside update_mastery
    wrec,                 \* per worker: the mastery_record it read
    wans,                 \* per worker: is_correct of the answer it processes
    initialRows,          \* the rows the concurrent run started from
    topic_distribution,   \* packer input: topic -> number of questions
    target_total_sessions,\* packer input: 0 stands for None
    all_sessions,         \* packer output: sequence of sessions
    packed,               \* whether group_topics_into_sessions has returned
    exam,                 \* the mock_exams row: status ("none" before create_mock_exam) and scores
    modStatus,            \* mock_exam_modules.status per module
    raw_score,            \* mock_exam_modules.raw_score per module (NULL if unset)
    nRows,                \* number of mock_exam_questions rows per module
    nCorrect,             \* rows per module with is_correct = True
    next_difficulty,      \* difficulty_level of the latest module-2 generation, per section
    submits,              \* number of submit_answer calls so far (bounds the run)
    practice_sessions,    \* practice_sessions.status per row of the owner's study plan
    session_questions,    \* per practice session: its question rows and how many are answered
    performance_snapshots,\* number of user_performance_snapshots rows
    response,             \* the latest API call: operation, caller and outcome
    requests,             \* number of API calls handled so far (bounds the run)
    question_bank,        \* active questions per section, category and difficulty
    foreign_rows,         \* per module: rows whose question is of the other section
    stage1_cells,         \* per section: module 1's questions per category and difficulty
    repeated_rows,        \* per module: rows whose question_id another row of the module has
    display_order,        \* per module: the display_order values of its rows
    shared_rows,          \* per section: module-2 rows whose question is also in module 1
    masteries,            \* scheduler input: the TopicMastery values of the dict, in insertion order
    top_topics,           \* the list returned by get_top_topics
    next_topic,           \* the value returned by get_next_topic
    focus_topics,         \* priority per focus topic, as _calculate_topic_priorities returns them
    study_plans,          \* the rows of table study_plans of one user
    session_schedule,     \* per practice_sessions row: study_plan_id, session_number, scheduled_date
    plan_pc,              \* per worker: position inside generate_study_plan
    plan_id               \* per worker: id of the study plan it inserted

masteryVars == <<user_skill_mastery, learning_events>>
raceVars == <<wpc, wrec, wans, initialRows>>
packVars == <<topic_distribution, target_total_sessions, all_sessions, packed>>
examVars == <<exam, modStatus, raw_score, nRows, nCorrect, next_difficulty, submits>>
practiceVars == <<practice_sessions, session_questions, performance_snapshots>>
callVars == <<response, requests>>
sessionVars == <<practiceVars, callVars>>
bankVars == <<question_bank, foreign_rows, stage1_cells, repeated_rows, display_order, shared_rows>>
schedulerVars == <<masteries, top_topics, next_topic>>
planVars == <<focus_topics, study_plans, session_schedule, plan_pc, plan_id>>
vars == <<masteryVars, raceVars, packVars, examVars, sessionVars, bankVars, schedulerVars, planVars>>

-----------------------------------------------------------------------------
(* Arithmetic helpers *)

Min(a, b) == IF a <= b THEN a ELSE b

Max(a, b) == IF a >= b THEN a ELSE b

\* round(n / d) for n >= 0, d > 0 (nearest integer)
RoundDiv(n, d) == (2 * n + d) \div (2 * d)

-----------------------------------------------------------------------------
(* BKTService *)

\* one probability unit is 1e-4
UNIT == 10000

\* one parameter unit is 1e-2
PCT == 100

DEFAULT_PRIOR == 2500

DEFAULT_LEARN == 10

DEFAULT_GUESS == 25

DEFAULT_SLIP == 10

\* bounds on the stored mastery: 0.01 and 0.99
MASTERY_MIN == 100

MASTERY_MAX == 9900

\* mastery-achieved threshold 0.95
MASTERY_ACHIEVED == 9500

\* plateau thresholds: 10 attempts, velocity 0.02
PLATEAU_ATTEMPTS == 10

PLATEAU_VELOCITY == 200

\* a rational q given as <<floor(q), num, den>> with q = floor + num/den, 0 <= num < den
Rat(fl, num, den) == [fl |-> fl, num |-> num, den |-> den]

\* BayesStep with the fault that the evidence of a correct answer is taken for that
\* of an incorrect one and the other way round
BayesStepSwapped(current_mastery, p_learn, p_guess, p_slip, is_correct) ==
    LET numerator == IF ~is_correct THEN current_mastery * (PCT - p_slip)
                                    ELSE current_mastery * p_slip
        denominator == numerator + (UNIT - current_mastery) *
                          (IF ~is_correct THEN p_guess ELSE PCT - p_guess)
        n == IF denominator > 0 THEN numerator ELSE current_mastery
        d == IF denominator > 0 THEN denominator ELSE UNIT
        a == n * PCT + (d - n) * p_learn
        q == a \div d
        r == a % d
    IN Rat(PCT * q + ((PCT * r) \div d), (PCT * r) % d, d)

\* P(L | evidence) followed by the learning step, in probability units, as a rational.
\* With n = numerator, d = denominator (both scaled by UNIT * PCT):
\*   new = n/d + (1 - n/d) * p_learn  =  (n * PCT + (d - n) * p_learn) / (d * PCT)
BayesStep(current_mastery, p_learn, p_guess, p_slip, is_correct) ==
    LET numerator == IF is_correct THEN current_mastery * (PCT - p_slip)
                                   ELSE current_mastery * p_slip
        denominator == numerator + (UNIT - current_mastery) *
                          (IF is_correct THEN p_guess ELSE PCT - p_guess)
        \* denominator = 0: p_learned_given_evidence = current_mastery
        n == IF denominator > 0 THEN numerator ELSE current_mastery
        d == IF denominator > 0 THEN denominator ELSE UNIT
        a == n * PCT + (d - n) * p_learn     \* new = a / (d * PCT), as a fraction of 1
        q == a \div d                        \* new * UNIT = PCT * a / d = PCT*q + PCT*r/d
        r == a % d
    IN Rat(PCT * q + ((PCT * r) \div d), (PCT * r) % d, d)

\* ClampMastery with the fault that the upper bound is not applied
ClampMasteryNoCap(x) ==
    IF x.fl < MASTERY_MIN THEN Rat(MASTERY_MIN, 0, 1) ELSE x

\* min(0.99, max(0.01, new_mastery))
ClampMastery(x) ==
    IF x.fl < MASTERY_MIN THEN Rat(MASTERY_MIN, 0, 1)
    ELSE IF x.fl >= MASTERY_MAX THEN Rat(MASTERY_MAX, 0, 1)
    ELSE x

\* round(x, 4) of a non-negative rational in probability units; a value halfway
\* between two results goes to the even one
Round4(x) ==
    IF 2 * x.num > x.den THEN x.fl + 1
    ELSE IF 2 * x.num = x.den THEN x.fl + (x.fl % 2)
    ELSE x.fl

\* new_mastery of update_mastery (before the store's rounding)
NewMastery(rec, is_correct) ==
    ClampMastery(BayesStep(rec.mastery_probability, rec.learn_rate,
                           rec.guess_probability, rec.slip_probability, is_correct))

\* abs(new_mastery - current_mastery) < 0.02, new_mastery a rational
VelocityBelow(x, current_mastery, limit) ==
    LET k == x.fl - current_mastery     \* velocity = k + num/den, floor(velocity) = k
    IN /\ k < limit
       /\ k >= -limit
       /\ ~(k = -limit /\ x.num = 0)

\* round(velocity, 4), velocity = new_mastery - current_mastery
Velocity4(x, current_mastery) == Round4(x) - current_mastery

\* the row initialize_skill_mastery inserts
DefaultRecord ==
    [mastery_probability |-> DEFAULT_PRIOR, prior_knowledge |-> DEFAULT_PRIOR,
     learn_rate |-> DEFAULT_LEARN, guess_probability |-> DEFAULT_GUESS,
     slip_probability |-> DEFAULT_SLIP, total_attempts |-> 0, correct_attempts |-> 0,
     plateau_flag |-> FALSE, learning_velocity |-> 0]

\* UpdatedRecord with the fault that a plateau_flag that is set is never cleared
UpdatedRecordStickyPlateau(rec, is_correct) ==
    LET new_mastery == NewMastery(rec, is_correct)
        total_attempts == rec.total_attempts + 1
        plateau_detected == /\ total_attempts >= PLATEAU_ATTEMPTS
                            /\ VelocityBelow(new_mastery, rec.mastery_probability, PLATEAU_VELOCITY)
    IN [rec EXCEPT !.mastery_probability = Round4(new_mastery),
                   !.learning_velocity = Velocity4(new_mastery, rec.mastery_probability),
                   !.total_attempts = total_attempts,
                   !.correct_attempts = rec.correct_attempts + (IF is_correct THEN 1 ELSE 0),
                   !.plateau_flag = rec.plateau_flag \/ plateau_detected]

\* update_data of update_mastery applied to the record that was read
UpdatedRecord(rec, is_correct) ==
    LET new_mastery == NewMastery(rec, is_correct)
        total_attempts == rec.total_attempts + 1
        plateau_detected == /\ total_attempts >= PLATEAU_ATTEMPTS
                            /\ VelocityBelow(new_mastery, rec.mastery_probability, PLATEAU_VELOCITY)
    IN [rec EXCEPT !.mastery_probability = Round4(new_mastery),
                   !.learning_velocity = Velocity4(new_mastery, rec.mastery_probability),
                   !.total_attempts = total_attempts,
                   !.correct_attempts = rec.correct_attempts + (IF is_correct THEN 1 ELSE 0),
                   !.plateau_flag = plateau_detected]

\* the event types update_mastery logs for one update
EventsOf(rec, is_correct) ==
    LET new_mastery == NewMastery(rec, is_correct)
        upd == UpdatedRecord(rec, is_correct)
    IN {"mastery_updated"}
       \cup (IF new_mastery.fl >= MASTERY_ACHIEVED /\ rec.mastery_probability < MASTERY_ACHIEVED
             THEN {"mastery_achieved"} ELSE {})
       \cup (IF upd.plateau_flag THEN {"plateau_detected"} ELSE {})

\* adjusted_mastery of complete_test: clamp((correct/total - 0.25) / 0.75, 0.01, 0.99),
\* rounded to 4 places; (c/t - 1/4) / (3/4) = (4c - t) / (3t)
AdjustedMastery(correct, total) ==
    IF 4 * correct - total <= 0 THEN MASTERY_MIN
    ELSE Max(MASTERY_MIN, Min(MASTERY_MAX, RoundDiv(UNIT * (4 * correct - total), 3 * total)))


-----------------------------------------------------------------------------
(* The user_skill_mastery table for one (user_id, skill_id); a row's id is   *)
(* its index.                                                                *)

\* largest total_attempts an update starts from
MaxAttempts == 12

\* largest number of diagnostic questions on the topic
MaxDiagTotal == 4

\* get_user_mastery: response.data[0], or None (0) when there is no row
get_user_mastery(rows) == IF Len(rows) > 0 THEN 1 ELSE 0

\* the table after .update(data).eq("id", id)
UpdateRow(rows, id, rec) == [rows EXCEPT ![id] = rec]

\* mastery_data of complete_test written over an existing row
DiagnosticUpdate(rec, correct, total) ==
    [rec EXCEPT !.mastery_probability = AdjustedMastery(correct, total),
                !.prior_knowledge = AdjustedMastery(correct, total),
                !.total_attempts = total,
                !.correct_attempts = correct]

\* mastery_data of complete_test inserted as a new row
DiagnosticInsert(correct, total) ==
    DiagnosticUpdate(DefaultRecord, correct, total)

\* the initial values of the variables a specification does not use
IdleMastery == user_skill_mastery = <<>> /\ learning_events = {}

IdleRace ==
    /\ wpc = [w \in {1, 2} |-> "idle"]
    /\ wrec = [w \in {1, 2} |-> [id |-> 0, row |-> DefaultRecord]]
    /\ wans = [w \in {1, 2} |-> FALSE]
    /\ initialRows = <<>>

IdlePack ==
    /\ topic_distribution = <<>>
    /\ target_total_sessions = 0
    /\ all_sessions = <<>>
    /\ packed = FALSE

NoResponse == [op |-> "none", user_id |-> "none", result |-> "none"]

IdleSession ==
    /\ practice_sessions = <<>>
    /\ session_questions = <<>>
    /\ performance_snapshots = 0
    /\ response = NoResponse
    /\ requests = 0

\* update_mastery(user_id, skill_id, is_correct), run without interruption
update_mastery(is_correct) ==
    LET created == IF get_user_mastery(user_skill_mastery) = 0
                   THEN Append(user_skill_mastery, DefaultRecord)
                   ELSE user_skill_mastery
        id == get_user_mastery(created)
        mastery_record == created[id]
    IN /\ mastery_record.total_attempts < MaxAttempts
       /\ user_skill_mastery' = UpdateRow(created, id, UpdatedRecord(mastery_record, is_correct))
       /\ learning_events' = EventsOf(mastery_record, is_correct)

\* complete_test, for a topic with `total` diagnostic questions, `correct` of them right
complete_test(correct, total) ==
    LET existing_mastery == get_user_mastery(user_skill_mastery)
    IN /\ user_skill_mastery' =
            IF existing_mastery # 0
            THEN UpdateRow(user_skill_mastery, existing_mastery,
                           DiagnosticUpdate(user_skill_mastery[existing_mastery], correct, total))
            ELSE Append(user_skill_mastery, DiagnosticInsert(correct, total))
       /\ learning_events' = {}

\* complete_test, for a topic the diagnostic did not cover
complete_test_uncovered ==
    /\ get_user_mastery(user_skill_mastery) = 0
    /\ user_skill_mastery' = Append(user_skill_mastery, DefaultRecord)
    /\ learning_events' = {}

AnswerCorrect == update_mastery(TRUE)

AnswerIncorrect == update_mastery(FALSE)

Diagnostic == \E total \in 1..MaxDiagTotal : \E correct \in 0..total : complete_test(correct, total)

DiagnosticUncovered == complete_test_uncovered


-----------------------------------------------------------------------------
(* Two requests running update_mastery for the same (user_id, skill_id):     *)
(* each database call is one step.                                           *)

Workers == {1, 2}

\* the rows a concurrent run may start from: none, a fresh row, a diagnostic row
RaceStartRows ==
    {<<>>, <<DefaultRecord>>}
    \cup {<<DiagnosticInsert(correct, total)>> :
             correct \in 0..MaxDiagTotal, total \in {MaxDiagTotal}}

\* _get_or_create_mastery, the select: get_user_mastery
RaceGet(w, is_correct) ==
    /\ wpc[w] = "idle"
    /\ wans' = [wans EXCEPT ![w] = is_correct]
    /\ LET existing == get_user_mastery(user_skill_mastery)
       IN IF existing # 0
          THEN /\ wrec' = [wrec EXCEPT ![w] = [id |-> existing, row |-> user_skill_mastery[existing]]]
               /\ wpc' = [wpc EXCEPT ![w] = "computed"]
          ELSE /\ wrec' = wrec
               /\ wpc' = [wpc EXCEPT ![w] = "create"]
    /\ UNCHANGED <<user_skill_mastery, learning_events, initialRows>>

\* _get_or_create_mastery, the insert: initialize_skill_mastery
RaceCreate(w) ==
    /\ wpc[w] = "create"
    /\ user_skill_mastery' = Append(user_skill_mastery, DefaultRecord)
    /\ wrec' = [wrec EXCEPT ![w] = [id |-> Len(user_skill_mastery) + 1, row |-> DefaultRecord]]
    /\ wpc' = [wpc EXCEPT ![w] = "computed"]
    /\ UNCHANGED <<learning_events, wans, initialRows>>

\* the update of the row that was read, and the event inserts
RaceWrite(w) ==
    /\ wpc[w] = "computed"
    /\ user_skill_mastery' = UpdateRow(user_skill_mastery, wrec[w].id,
                                       UpdatedRecord(wrec[w].row, wans[w]))
    /\ learning_events' = EventsOf(wrec[w].row, wans[w])
    /\ wpc' = [wpc EXCEPT ![w] = "done"]
    /\ UNCHANGED <<wrec, wans, initialRows>>


-----------------------------------------------------------------------------
(* StudyPlanService: group_topics_into_sessions and _create_section_sessions *)

MAX_QUESTIONS == 25

\* largest question count of one topic in the packer's input
MaxTopicQuestions == 26

\* largest target_total_sessions (0 stands for None)
MaxTarget == 3

\* topics_lookup: the topics in the order the distribution is iterated, and their sections
TopicOrder == <<"m1", "m2", "r1">>

Topics == {TopicOrder[k] : k \in 1..Len(TopicOrder)}

Section(topic_id) == IF topic_id \in {"m1", "m2"} THEN "math" ELSE "reading_writing"

RECURSIVE SumSeq(_)
SumSeq(q) == IF q = <<>> THEN 0 ELSE Head(q) + SumSeq(Tail(q))

\* sum(distribution.values())
SumValues(distribution) == SumSeq([k \in 1..Len(TopicOrder) |-> distribution[TopicOrder[k]]])

\* SectionDistribution with the fault that the topic's section is not looked at
SectionDistributionAll(distribution, section) == distribution

\* math_distribution / rw_distribution: the topics of one section (0 = not in the dict)
SectionDistribution(distribution, section) ==
    [t \in Topics |-> IF Section(t) = section THEN distribution[t] ELSE 0]

\* QuestionsForSession with the fault that the remainder is not handed out
QuestionsForSessionNoRemainder(total_topic_questions, num_sessions, session_idx) ==
    total_topic_questions \div num_sessions

\* QuestionsForSession with the fault that the remainder goes to the last sessions
QuestionsForSessionRemainderLast(total_topic_questions, num_sessions, session_idx) ==
    LET questions_per_session == total_topic_questions \div num_sessions
        remainder == total_topic_questions % num_sessions
    IN questions_per_session + (IF session_idx >= num_sessions - remainder THEN 1 ELSE 0)

\* questions_for_this_session, session_idx counted from 0
QuestionsForSession(total_topic_questions, num_sessions, session_idx) ==
    LET questions_per_session == total_topic_questions \div num_sessions
        remainder == total_topic_questions % num_sessions
    IN questions_per_session + (IF session_idx < remainder THEN 1 ELSE 0)

\* one session of the even split: the topic items with a positive count
SplitSession(distribution, num_sessions, session_idx) ==
    LET items == [k \in 1..Len(TopicOrder) |->
                    [topic_id |-> TopicOrder[k],
                     num_questions |-> QuestionsForSession(distribution[TopicOrder[k]],
                                                           num_sessions, session_idx)]]
    IN SelectSeq(items, LAMBDA it : it.num_questions > 0)

\* sessions after distributing every topic over num_sessions sessions
SplitSessions(distribution, num_sessions) ==
    [i \in 1..num_sessions |-> SplitSession(distribution, num_sessions, i - 1)]

\* session_counts entry of one session
SessionCount(session) == SumSeq([k \in 1..Len(session) |-> session[k].num_questions])

MaxSessionCount(sessions) ==
    IF sessions = <<>> THEN 0
    ELSE CHOOSE c \in {SessionCount(sessions[i]) : i \in 1..Len(sessions)} :
            \A i \in 1..Len(sessions) : SessionCount(sessions[i]) <= c

\* merge one overflow session's topic items into final_session
RECURSIVE MergeItems(_, _)
MergeItems(final_session, items) ==
    IF items = <<>> THEN final_session
    ELSE LET topic_item == Head(items)
             hit == {k \in 1..Len(final_session) : final_session[k].topic_id = topic_item.topic_id}
         IN IF hit # {}
            THEN LET k == CHOOSE k \in hit : \A j \in hit : k <= j
                 IN MergeItems([final_session EXCEPT ![k].num_questions = @ + topic_item.num_questions],
                               Tail(items))
            ELSE MergeItems(Append(final_session, topic_item), Tail(items))

RECURSIVE MergeSessions(_, _)
MergeSessions(final_session, sessions) ==
    IF sessions = <<>> THEN final_session
    ELSE MergeSessions(MergeItems(final_session, Head(sessions)), Tail(sessions))

\* _create_section_sessions(topic_distribution, section, topics_lookup, target_sessions)
create_section_sessions(distribution, target_sessions) ==
    LET total_questions == SumValues(distribution)
        num_sessions == Max(1, (total_questions + MAX_QUESTIONS - 1) \div MAX_QUESTIONS)
        first == SplitSessions(distribution, num_sessions)
        split == IF MaxSessionCount(first) > MAX_QUESTIONS
                 THEN SplitSessions(distribution, num_sessions + 1)
                 ELSE first
        non_empty == SelectSeq(split, LAMBDA session : session # <<>>)
    IN IF total_questions = 0 THEN <<>>
       ELSE IF target_sessions # 0 /\ Len(non_empty) > target_sessions
       THEN Append(SubSeq(non_empty, 1, target_sessions - 1),
                   MergeSessions(<<>>, SubSeq(non_empty, target_sessions, Len(non_empty))))
       ELSE non_empty

\* the while loop that lowers the section targets while their sum exceeds the target
RECURSIVE AdjustTargets(_, _, _)
AdjustTargets(math_target, rw_target, target) ==
    IF math_target + rw_target > target
    THEN IF math_target > rw_target /\ math_target > 1
         THEN AdjustTargets(math_target - 1, rw_target, target)
         ELSE IF rw_target > 1
         THEN AdjustTargets(math_target, rw_target - 1, target)
         ELSE <<math_target, rw_target>>
    ELSE <<math_target, rw_target>>

\* <<math_target, rw_target>>, 0 standing for None
SectionTargets(distribution, target) ==
    LET total_questions == SumValues(distribution)
        math_questions == SumValues(SectionDistribution(distribution, "math"))
        rw_questions == SumValues(SectionDistribution(distribution, "reading_writing"))
        \* max(1, int(target * proportion)) if questions > 0 else 0
        math_target == IF math_questions > 0
                       THEN Max(1, (target * math_questions) \div total_questions) ELSE 0
        rw_target == IF rw_questions > 0
                     THEN Max(1, (target * rw_questions) \div total_questions) ELSE 0
    IN IF target # 0 /\ total_questions > 0
       THEN AdjustTargets(math_target, rw_target, target)
       ELSE <<0, 0>>

\* round-robin interleaving, starting with the longer list
RECURSIVE Interleave(_, _)
Interleave(first, second) ==
    IF first = <<>> THEN second
    ELSE IF second = <<>> THEN first
    ELSE <<Head(first), Head(second)>> \o Interleave(Tail(first), Tail(second))

group_topics_into_sessions(distribution, target) ==
    LET targets == SectionTargets(distribution, target)
        math_sessions == create_section_sessions(SectionDistribution(distribution, "math"),
                                                 targets[1])
        rw_sessions == create_section_sessions(SectionDistribution(distribution, "reading_writing"),
                                               targets[2])
    IN IF Len(math_sessions) >= Len(rw_sessions)
       THEN Interleave(math_sessions, rw_sessions)
       ELSE Interleave(rw_sessions, math_sessions)


-----------------------------------------------------------------------------
(* MockExamService.  The mock_exam_questions rows of a module are kept as    *)
(* two counts: the rows, and the rows whose is_correct is True.              *)

QUESTIONS_PER_MODULE == 27

\* branch thresholds of complete_module, in tenths: 0.7 and 0.4
HARD_THRESHOLD == 7

MEDIUM_THRESHOLD == 4

\* scaled-score range and step of _convert_to_scaled_score
SCALED_MIN == 200

SCALED_MAX == 800

SCALED_SPAN == 600

SCALED_STEP == 10

\* raw_score of a module that was never completed (SQL NULL)
NULL == -1

\* number of active questions in the question bank
ActiveQuestions == 60

\* largest number of submit_answer calls in one run
MaxSubmits == 2

\* largest number of module-2 generations per section in one run
MaxGenerations == 2

\* module_types of create_mock_exam, in creation order
ModuleOrder == <<"rw_module_1", "rw_module_2", "math_module_1", "math_module_2">>

Modules == {ModuleOrder[k] : k \in 1..Len(ModuleOrder)}

Sections == {"rw", "math"}

Users == {"owner", "other"}

module_number(m) == IF m \in {"rw_module_1", "math_module_1"} THEN 1 ELSE 2

\* section_prefix = "math" if "math" in module_type else "rw"
section_prefix(m) == IF m \in {"math_module_1", "math_module_2"} THEN "math" ELSE "rw"

\* f"{section_prefix}_module_2"
next_module_type(m) == IF section_prefix(m) = "math" THEN "math_module_2" ELSE "rw_module_2"

first_module_type(section) == IF section = "math" THEN "math_module_1" ELSE "rw_module_1"

\* NextDifficulty with the fault that the hard and medium thresholds are swapped
NextDifficultySwapped(correct_count) ==
    IF 10 * correct_count >= MEDIUM_THRESHOLD * QUESTIONS_PER_MODULE THEN "hard"
    ELSE IF 10 * correct_count >= HARD_THRESHOLD * QUESTIONS_PER_MODULE THEN "medium"
    ELSE "easy"

\* next_difficulty: percentage = correct_count / QUESTIONS_PER_MODULE against 0.7 and 0.4
NextDifficulty(correct_count) ==
    IF 10 * correct_count >= HARD_THRESHOLD * QUESTIONS_PER_MODULE THEN "hard"
    ELSE IF 10 * correct_count >= MEDIUM_THRESHOLD * QUESTIONS_PER_MODULE THEN "medium"
    ELSE "easy"

\* the number of rows one run of _generate_module_questions inserts:
\* selected_questions[:QUESTIONS_PER_MODULE], filled up from any active question
GeneratedRows == Min(QUESTIONS_PER_MODULE, ActiveQuestions)

\* convert_to_scaled_score with the fault that the score is rounded to the nearest
\* integer, not to the nearest 10
convert_to_scaled_score_unit(raw, total_questions) ==
    IF raw <= 0 THEN SCALED_MIN
    ELSE Min(SCALED_MAX,
             Max(SCALED_MIN,
                 RoundDiv(SCALED_MIN * total_questions + SCALED_SPAN * raw, total_questions)))

\* convert_to_scaled_score with the fault that the score is rounded up to the next 10
convert_to_scaled_score_up(raw, total_questions) ==
    IF raw <= 0 THEN SCALED_MIN
    ELSE Min(SCALED_MAX,
             Max(SCALED_MIN,
                 SCALED_STEP * ((SCALED_MIN * total_questions + SCALED_SPAN * raw
                                   + SCALED_STEP * total_questions - 1)
                                \div (SCALED_STEP * total_questions))))

\* _convert_to_scaled_score(raw_score, total_questions)
convert_to_scaled_score(raw, total_questions) ==
    IF raw <= 0 THEN SCALED_MIN
    ELSE Min(SCALED_MAX,
             Max(SCALED_MIN,
                 SCALED_STEP * RoundDiv(SCALED_MIN * total_questions + SCALED_SPAN * raw,
                                        SCALED_STEP * total_questions)))

NoExam == [status |-> "none", math_score |-> NULL, rw_score |-> NULL, total_score |-> NULL]

IdleExam ==
    /\ exam = NoExam
    /\ modStatus = [m \in Modules |-> "none"]
    /\ raw_score = [m \in Modules |-> NULL]
    /\ nRows = [m \in Modules |-> 0]
    /\ nCorrect = [m \in Modules |-> 0]
    /\ next_difficulty = [s \in Sections |-> "none"]
    /\ submits = 0

NoRows ==
    /\ foreign_rows = [m \in Modules |-> 0]
    /\ stage1_cells = [s \in Sections |-> <<>>]
    /\ repeated_rows = [m \in Modules |-> 0]
    /\ display_order = [m \in Modules |-> {}]
    /\ shared_rows = [s \in Sections |-> 0]

IdleBank == question_bank = <<>> /\ NoRows

NotCalled == [called |-> FALSE, value |-> <<>>]

IdleScheduler ==
    /\ masteries = <<>>
    /\ top_topics = NotCalled
    /\ next_topic = NotCalled

IdlePlan ==
    /\ focus_topics = <<>>
    /\ study_plans = <<>>
    /\ session_schedule = <<>>
    /\ plan_pc = [w \in Workers |-> "idle"]
    /\ plan_id = [w \in Workers |-> 0]

\* create_mock_exam: the exam row, four modules, questions for module 1 of each section
create_mock_exam ==
    /\ exam.status = "none"
    /\ exam' = [exam EXCEPT !.status = "not_started"]
    /\ modStatus' = [m \in Modules |-> "not_started"]
    /\ raw_score' = [m \in Modules |-> NULL]
    /\ nRows' = [m \in Modules |-> IF module_number(m) = 1 THEN GeneratedRows ELSE 0]
    /\ nCorrect' = [m \in Modules |-> 0]
    /\ UNCHANGED <<next_difficulty, submits>>

\* ModuleBelongsToUser with the fault that the caller is not compared with the owner
ModuleBelongsToAnyUser(m, user_id) == TRUE

\* module["mock_exams"]["user_id"] == user_id (the exam belongs to "owner")
ModuleBelongsToUser(m, user_id) == user_id = "owner"

\* start_module(module_id, user_id)
start_module(m, user_id) ==
    /\ modStatus[m] # "none"
    /\ IF ~ModuleBelongsToUser(m, user_id)
       THEN UNCHANGED examVars
       ELSE /\ modStatus' = [modStatus EXCEPT ![m] = "in_progress"]
            /\ exam' = IF exam.status = "not_started"
                       THEN [exam EXCEPT !.status = "in_progress"] ELSE exam
            /\ UNCHANGED <<raw_score, nRows, nCorrect, next_difficulty, submits>>

\* submit_answer(module_id, question_id, user_answer, ..., user_id): the row of the
\* question had is_correct = was_correct and gets is_correct
submit_answer(m, user_id, was_correct, is_correct) ==
    /\ modStatus[m] # "none"
    /\ submits < MaxSubmits
    /\ IF ~ModuleBelongsToUser(m, user_id)
       THEN UNCHANGED examVars
       ELSE /\ nRows[m] > 0
            /\ was_correct => nCorrect[m] > 0
            /\ ~was_correct => nCorrect[m] < nRows[m]
            /\ nCorrect' = [nCorrect EXCEPT ![m] = @ - (IF was_correct THEN 1 ELSE 0)
                                                     + (IF is_correct THEN 1 ELSE 0)]
            /\ submits' = submits + 1
            /\ UNCHANGED <<exam, modStatus, raw_score, nRows, next_difficulty>>

\* the raw scores of one section summed: m["raw_score"] or 0
SectionRaw(scores, section) ==
    LET m1 == first_module_type(section)
        m2 == next_module_type(m1)
    IN (IF scores[m1] = NULL THEN 0 ELSE scores[m1]) + (IF scores[m2] = NULL THEN 0 ELSE scores[m2])

\* _finalize_exam: the exam row after the scores are written
finalize_exam(scores) ==
    LET math_score == convert_to_scaled_score(SectionRaw(scores, "math"), QUESTIONS_PER_MODULE * 2)
        rw_score == convert_to_scaled_score(SectionRaw(scores, "rw"), QUESTIONS_PER_MODULE * 2)
    IN [status |-> "completed", math_score |-> math_score, rw_score |-> rw_score,
        total_score |-> math_score + rw_score]

\* complete_module(module_id, user_id, time_remaining_seconds)
complete_module(m, user_id) ==
    /\ modStatus[m] # "none"
    /\ IF ~ModuleBelongsToUser(m, user_id)
       THEN UNCHANGED examVars
       ELSE LET correct_count == nCorrect[m]
                next_module == next_module_type(m)
                status_after == [modStatus EXCEPT ![m] = "completed"]
                scores_after == [raw_score EXCEPT ![m] = correct_count]
            IN /\ module_number(m) = 1 =>
                      nRows[next_module] < MaxGenerations * QUESTIONS_PER_MODULE
               /\ modStatus' = status_after
               /\ raw_score' = scores_after
               /\ IF module_number(m) = 1
                  THEN /\ next_difficulty' = [next_difficulty EXCEPT ![section_prefix(m)] =
                                                  NextDifficulty(correct_count)]
                       /\ nRows' = [nRows EXCEPT ![next_module] = @ + GeneratedRows]
                  ELSE UNCHANGED <<next_difficulty, nRows>>
               /\ exam' = IF \A x \in Modules : status_after[x] = "completed"
                          THEN finalize_exam(scores_after) ELSE exam
               /\ UNCHANGED <<nCorrect, submits>>

CreateMockExam == create_mock_exam

StartModule == \E m \in Modules : \E user_id \in Users : start_module(m, user_id)

SubmitAnswer ==
    \E m \in Modules : \E user_id \in Users : \E was_correct, is_correct \in BOOLEAN :
        submit_answer(m, user_id, was_correct, is_correct)

CompleteModule == \E m \in Modules : \E user_id \in Users : complete_module(m, user_id)

InitExam == IdleExam /\ IdleMastery /\ IdleRace /\ IdlePack /\ IdleSession /\ IdleBank /\ IdleScheduler /\ IdlePlan

NextExam ==
    \/ CreateMockExam /\ UNCHANGED <<masteryVars, raceVars, packVars, sessionVars, bankVars, schedulerVars, planVars>>
    \/ StartModule /\ UNCHANGED <<masteryVars, raceVars, packVars, sessionVars, bankVars, schedulerVars, planVars>>
    \/ SubmitAnswer /\ UNCHANGED <<masteryVars, raceVars, packVars, sessionVars, bankVars, schedulerVars, planVars>>
    \/ CompleteModule /\ UNCHANGED <<masteryVars, raceVars, packVars, sessionVars, bankVars, schedulerVars, planVars>>

SpecExam == InitExam /\ [][NextExam]_vars

\* an exam whose module-1 questions have been answered: correct[section] of them right
AnsweredExam(correct) ==
    /\ exam = [NoExam EXCEPT !.status = "in_progress"]
    /\ modStatus = [m \in Modules |-> IF module_number(m) = 1 THEN "in_progress" ELSE "not_started"]
    /\ raw_score = [m \in Modules |-> NULL]
    /\ nRows = [m \in Modules |-> IF module_number(m) = 1 THEN GeneratedRows ELSE 0]
    /\ nCorrect = [m \in Modules |-> IF module_number(m) = 1 THEN correct[section_prefix(m)] ELSE 0]
    /\ next_difficulty = [s \in Sections |-> "none"]
    /\ submits = MaxSubmits

InitBranch ==
    /\ \E correct \in [Sections -> 0..GeneratedRows] : AnsweredExam(correct)
    /\ IdleMastery /\ IdleRace /\ IdlePack /\ IdleSession /\ IdleBank /\ IdleScheduler /\ IdlePlan

NextBranch ==
    \/ StartModule /\ UNCHANGED <<masteryVars, raceVars, packVars, sessionVars, bankVars, schedulerVars, planVars>>
    \/ CompleteModule /\ UNCHANGED <<masteryVars, raceVars, packVars, sessionVars, bankVars, schedulerVars, planVars>>

SpecBranch == InitBranch /\ [][NextBranch]_vars

-----------------------------------------------------------------------------
(* The API handlers of mock exams and practice sessions, called by the owner  *)
(* of the exam and of the study plan and by another authenticated user.       *)

\* largest number of API calls in one run
MaxRequests == 4

\* number of question rows of the practice session
SessionRows == 2

\* verify_session_ownership: session["study_plans"]["user_id"] == user_id (the
\* study plan belongs to "owner")
SessionBelongsToUser(session_id, user_id) == user_id = "owner"

\* practice_sessions.submit_answer: the row of the question was answered before
\* (was_answered) or not; the answer is right (is_correct) or wrong
practice_submit_answer(session_id, user_id, was_answered, is_correct) ==
    /\ session_id \in 1..Len(practice_sessions)
    /\ IF ~SessionBelongsToUser(session_id, user_id)
       THEN UNCHANGED <<practiceVars, masteryVars>>
       ELSE /\ was_answered => session_questions[session_id].answered > 0
            /\ ~was_answered =>
                  session_questions[session_id].answered < session_questions[session_id].rows
            /\ session_questions' = [session_questions EXCEPT ![session_id].answered =
                                          @ + (IF was_answered THEN 0 ELSE 1)]
            /\ update_mastery(is_correct)
            /\ UNCHANGED <<practice_sessions, performance_snapshots>>

\* practice_sessions.complete_session
complete_session(session_id, user_id) ==
    /\ session_id \in 1..Len(practice_sessions)
    /\ IF ~SessionBelongsToUser(session_id, user_id)
       THEN UNCHANGED <<practiceVars, masteryVars>>
       ELSE /\ practice_sessions' = [practice_sessions EXCEPT ![session_id] = "completed"]
            /\ performance_snapshots' = performance_snapshots + 1
            /\ UNCHANGED <<session_questions, masteryVars>>

\* the handler's response: 403 when the service raised the permission error
Respond(op, user_id, allowed) ==
    /\ requests < MaxRequests
    /\ requests' = requests + 1
    /\ response' = [op |-> op, user_id |-> user_id,
                    result |-> IF allowed THEN "ok" ELSE "forbidden"]

ApiCreateMockExam ==
    /\ create_mock_exam
    /\ Respond("create_mock_exam", "owner", TRUE)
    /\ UNCHANGED <<practiceVars, masteryVars>>

ApiStartModule ==
    \E m \in Modules : \E user_id \in Users :
        /\ start_module(m, user_id)
        /\ Respond("start_module", user_id, ModuleBelongsToUser(m, user_id))
        /\ UNCHANGED <<practiceVars, masteryVars>>

ApiSubmitAnswer ==
    \E m \in Modules : \E user_id \in Users : \E was_correct, is_correct \in BOOLEAN :
        /\ submit_answer(m, user_id, was_correct, is_correct)
        /\ Respond("submit_answer", user_id, ModuleBelongsToUser(m, user_id))
        /\ UNCHANGED <<practiceVars, masteryVars>>

ApiCompleteModule ==
    \E m \in Modules : \E user_id \in Users :
        /\ complete_module(m, user_id)
        /\ Respond("complete_module", user_id, ModuleBelongsToUser(m, user_id))
        /\ UNCHANGED <<practiceVars, masteryVars>>

ApiPracticeSubmitAnswer ==
    \E session_id \in 1..Len(practice_sessions) : \E user_id \in Users :
        \E was_answered, is_correct \in BOOLEAN :
            /\ practice_submit_answer(session_id, user_id, was_answered, is_correct)
            /\ Respond("practice_submit_answer", user_id, SessionBelongsToUser(session_id, user_id))
            /\ UNCHANGED examVars

ApiCompleteSession ==
    \E session_id \in 1..Len(practice_sessions) : \E user_id \in Users :
        /\ complete_session(session_id, user_id)
        /\ Respond("complete_session", user_id, SessionBelongsToUser(session_id, user_id))
        /\ UNCHANGED examVars

\* no exam yet; the owner's study plan holds one pending practice session
InitOwner ==
    /\ IdleExam /\ IdleMastery /\ IdleRace /\ IdlePack /\ IdleBank /\ IdleScheduler /\ IdlePlan
    /\ practice_sessions = <<"pending">>
    /\ session_questions = <<[rows |-> SessionRows, answered |-> 0]>>
    /\ performance_snapshots = 0
    /\ response = NoResponse
    /\ requests = 0

NextOwner ==
    \/ ApiCreateMockExam /\ UNCHANGED <<raceVars, packVars, bankVars, schedulerVars, planVars>>
    \/ ApiStartModule /\ UNCHANGED <<raceVars, packVars, bankVars, schedulerVars, planVars>>
    \/ ApiSubmitAnswer /\ UNCHANGED <<raceVars, packVars, bankVars, schedulerVars, planVars>>
    \/ ApiCompleteModule /\ UNCHANGED <<raceVars, packVars, bankVars, schedulerVars, planVars>>
    \/ ApiPracticeSubmitAnswer /\ UNCHANGED <<raceVars, packVars, bankVars, schedulerVars, planVars>>
    \/ ApiCompleteSession /\ UNCHANGED <<raceVars, packVars, bankVars, schedulerVars, planVars>>

SpecOwner == InitOwner /\ [][NextOwner]_vars

\* an exam one step from its end: math_module_2 is in progress and answered, the
\* other three modules are completed; raw[section] answers of the section are right
\* (module 1 holds the first QUESTIONS_PER_MODULE of them)
ScoredExam(raw) ==
    LET share(m) == IF module_number(m) = 1
                    THEN Min(raw[section_prefix(m)], QUESTIONS_PER_MODULE)
                    ELSE raw[section_prefix(m)] - Min(raw[section_prefix(m)], QUESTIONS_PER_MODULE)
    IN /\ exam = [NoExam EXCEPT !.status = "in_progress"]
       /\ modStatus = [m \in Modules |-> IF m = "math_module_2" THEN "in_progress" ELSE "completed"]
       /\ raw_score = [m \in Modules |-> IF m = "math_module_2" THEN NULL ELSE share(m)]
       /\ nRows = [m \in Modules |-> QUESTIONS_PER_MODULE]
       /\ nCorrect = [m \in Modules |-> share(m)]
       /\ next_difficulty = [s \in Sections |-> NextDifficulty(share(first_module_type(s)))]
       /\ submits = MaxSubmits

InitScore ==
    /\ \E raw \in [Sections -> 0..(2 * QUESTIONS_PER_MODULE)] : ScoredExam(raw)
    /\ IdleMastery /\ IdleRace /\ IdlePack /\ IdleSession /\ IdleBank /\ IdleScheduler /\ IdlePlan

NextScore == CompleteModule /\ UNCHANGED <<masteryVars, raceVars, packVars, sessionVars, bankVars, schedulerVars, planVars>>

SpecScore == InitScore /\ [][NextScore]_vars

-----------------------------------------------------------------------------
(* _generate_module_questions over a question bank: question_bank[c][d] is     *)
(* the number of active questions of category c and difficulty d.             *)

\* largest number of active questions of one category and difficulty
MaxCell == 5

Difficulties == {"E", "M", "H"}

\* EASY_DISTRIBUTION, MEDIUM_DISTRIBUTION, HARD_DISTRIBUTION, in percent
Distribution(difficulty_level) ==
    IF difficulty_level = "easy" THEN [E |-> 50, M |-> 35, H |-> 15]
    ELSE IF difficulty_level = "hard" THEN [E |-> 15, M |-> 35, H |-> 50]
    ELSE [E |-> 33, M |-> 34, H |-> 33]

\* the rows of table categories: two categories per section
Categories == {"math_a", "math_b", "rw_a", "rw_b"}

CategorySection(category_id) == IF category_id \in {"math_a", "math_b"} THEN "math" ELSE "rw"

\* categories.weight_in_section, in percent
weight_in_section(category_id) == 50

\* sum of f[x] over the elements x of set S
RECURSIVE SumOver(_, _)
SumOver(f, S) ==
    IF S = {} THEN 0
    ELSE LET x == CHOOSE y \in S : TRUE IN f[x] + SumOver(f, S \ {x})

\* the questions of one category in the bank
CategoryQuestions(bank, category_id) == SumOver(bank[category_id], Difficulties)

\* the questions of one section in the bank
SectionQuestions(bank, section) ==
    SumOver([c \in Categories |-> IF CategorySection(c) = section
                                  THEN CategoryQuestions(bank, c) ELSE 0], Categories)

\* category_target = int(QUESTIONS_PER_MODULE * weight / 100)
CategoryTarget(category_id) == (QUESTIONS_PER_MODULE * weight_in_section(category_id)) \div PCT

\* len(category_selected): per difficulty the target or all that are available,
\* then filled up from the rest of the category
CategorySelected(bank, category_id, difficulty_level) ==
    LET category_target == CategoryTarget(category_id)
        selected == [d \in Difficulties |->
                       LET difficulty_target ==
                               (category_target * Distribution(difficulty_level)[d]) \div PCT
                       IN IF bank[category_id][d] >= difficulty_target
                          THEN difficulty_target ELSE bank[category_id][d]]
        by_difficulty == SumOver(selected, Difficulties)
        remaining_pool == CategoryQuestions(bank, category_id) - by_difficulty
    IN IF category_target = 0 THEN 0
       ELSE IF by_difficulty < category_target
            THEN by_difficulty + Min(category_target - by_difficulty, remaining_pool)
            ELSE by_difficulty

\* len(selected_questions) after the loop over the section's categories
SectionSelected(bank, section, difficulty_level) ==
    SumOver([c \in Categories |-> IF CategorySection(c) = section
                                  THEN CategorySelected(bank, c, difficulty_level) ELSE 0],
            Categories)

\* the number of questions the final fill takes from the pool of all remaining
\* questions, and the pool's questions of the module's section and of the other one
FinalFill(bank, section, difficulty_level) ==
    LET other == CHOOSE x \in Sections : x # section
        selected == SectionSelected(bank, section, difficulty_level)
        own_remaining == SectionQuestions(bank, section) - selected
        other_remaining == SectionQuestions(bank, other)
        remaining_needed == Max(0, QUESTIONS_PER_MODULE - selected)
    IN [selected |-> selected,
        additional |-> Min(remaining_needed, own_remaining + other_remaining),
        own_remaining |-> own_remaining,
        other_remaining |-> other_remaining]

\* _generate_module_questions(module_id, module_type, difficulty_level): random.sample
\* takes any `additional` questions of the pool, some number of them of the other
\* section
generate_module_questions(m, difficulty_level) ==
    LET fill == FinalFill(question_bank, section_prefix(m), difficulty_level)
    IN \E foreign \in Max(0, fill.additional - fill.own_remaining)
                        ..Min(fill.additional, fill.other_remaining) :
          /\ nRows' = [nRows EXCEPT ![m] =
                          @ + Min(QUESTIONS_PER_MODULE, fill.selected + fill.additional)]
          /\ foreign_rows' = [foreign_rows EXCEPT ![m] = @ + foreign]
          /\ UNCHANGED <<exam, modStatus, raw_score, nCorrect, next_difficulty, submits,
                         question_bank, stage1_cells, repeated_rows, display_order, shared_rows>>

\* one generation per run, for any module and difficulty level
GenerateModuleQuestions ==
    \E m \in Modules : \E difficulty_level \in {"easy", "medium", "hard"} :
        /\ \A x \in Modules : nRows[x] = 0
        /\ generate_module_questions(m, difficulty_level)

\* an exam whose modules have no question assigned yet, and a question bank in
\* which each category holds the same number of questions of every difficulty
InitBank ==
    /\ exam = [NoExam EXCEPT !.status = "not_started"]
    /\ modStatus = [m \in Modules |-> "not_started"]
    /\ raw_score = [m \in Modules |-> NULL]
    /\ nRows = [m \in Modules |-> 0]
    /\ nCorrect = [m \in Modules |-> 0]
    /\ next_difficulty = [s \in Sections |-> "none"]
    /\ submits = 0
    /\ \E per_cell \in [Categories -> 0..MaxCell] :
          question_bank = [c \in Categories |-> [d \in Difficulties |-> per_cell[c]]]
    /\ NoRows
    /\ IdleMastery /\ IdleRace /\ IdlePack /\ IdleSession /\ IdleScheduler /\ IdlePlan

NextBank == GenerateModuleQuestions /\ UNCHANGED <<masteryVars, raceVars, packVars, sessionVars, schedulerVars, planVars>>

SpecBank == InitBank /\ [][NextBank]_vars

-----------------------------------------------------------------------------
(* _generate_module_questions, cell by cell: a generation is the number of   *)
(* questions it takes from every (category, difficulty) cell of the bank.    *)

\* largest number of active questions per cell in the banks of these runs
MaxUniform == 9

\* questions per cell: banks smaller than a module, one of 60 and a large one
CellSizes == {0, 1, 2, 5, MaxUniform}

CategoryOrder == <<"math_a", "math_b", "rw_a", "rw_b">>

DifficultyOrder == <<"E", "M", "H">>

\* the cells of questions_by_category, category by category
CellOrder ==
    [i \in 1..(Len(CategoryOrder) * Len(DifficultyOrder)) |->
        [category_id |-> CategoryOrder[((i - 1) \div Len(DifficultyOrder)) + 1],
         difficulty |-> DifficultyOrder[((i - 1) % Len(DifficultyOrder)) + 1]]]

\* len(questions_by_category[category_id][difficulty]) per cell
BankCells(bank) ==
    [i \in 1..Len(CellOrder) |-> bank[CellOrder[i].category_id][CellOrder[i].difficulty]]

AddCells(a, b) == [i \in 1..Len(a) |-> a[i] + b[i]]

\* sum of the first n cells
RECURSIVE SumFirst(_, _)
SumFirst(cells, n) == IF n = 0 THEN 0 ELSE cells[n] + SumFirst(cells, n - 1)

SumCells(cells) == SumFirst(cells, Len(cells))

\* the pool with the fault that selected questions stay in it
RemainingPoolAll(cells, selected) == cells

\* remaining_pool: the questions whose id is not in selected_ids
RemainingPool(cells, selected) == [i \in 1..Len(cells) |-> cells[i] - selected[i]]

\* every way to take r questions from the cells i.. of the pool, which hold
\* `left` questions
RECURSIVE SamplesFrom(_, _, _, _)
SamplesFrom(pool, i, r, left) ==
    IF i > Len(pool) THEN {<<>>}
    ELSE IF r = 0 THEN {[j \in 1..(Len(pool) - i + 1) |-> 0]}
    ELSE UNION {{<<k>> \o rest : rest \in SamplesFrom(pool, i + 1, r - k, left - pool[i])} :
                   k \in Max(0, r - (left - pool[i]))..Min(pool[i], r)}

\* random.sample(pool, r): every way to take r questions from the cells of the pool
Samples(pool, r) == SamplesFrom(pool, 1, r, SumCells(pool))

\* the questions selected per difficulty: difficulty_target of them, or all that
\* are available (categories of the module's section only)
TargetedCells(bank, section, difficulty_level) ==
    [i \in 1..Len(CellOrder) |->
        LET category_id == CellOrder[i].category_id
            difficulty_target ==
                (CategoryTarget(category_id) * Distribution(difficulty_level)[CellOrder[i].difficulty])
                    \div PCT
        IN IF CategorySection(category_id) = section
           THEN Min(difficulty_target, bank[category_id][CellOrder[i].difficulty])
           ELSE 0]

\* the pool of one category: the other categories' cells are left out
CategoryPool(pool, category_id) ==
    [i \in 1..Len(pool) |-> IF CellOrder[i].category_id = category_id THEN pool[i] ELSE 0]

\* selected_questions after the loop has handled the first k categories: a
\* category short of its target is filled from the rest of the category
RECURSIVE CategorySelections(_, _, _, _)
CategorySelections(bank, section, difficulty_level, k) ==
    IF k = 0 THEN {TargetedCells(bank, section, difficulty_level)}
    ELSE LET category_id == CategoryOrder[k]
             category_target == CategoryTarget(category_id)
             cells == BankCells(bank)
         IN UNION {LET category_selected == SumCells(CategoryPool(selected, category_id))
                       remaining_pool ==
                           CategoryPool(RemainingPool(cells, selected), category_id)
                   IN IF /\ CategorySection(category_id) = section
                         /\ category_selected < category_target
                      THEN {AddCells(selected, additional) :
                               additional \in Samples(remaining_pool,
                                                      Min(category_target - category_selected,
                                                          SumCells(remaining_pool)))}
                      ELSE {selected}
                   : selected \in CategorySelections(bank, section, difficulty_level, k - 1)}

\* selected_questions after the final fill from the pool of all questions left
ModuleSelections(bank, section, difficulty_level) ==
    LET cells == BankCells(bank)
    IN
    UNION {LET remaining_pool == RemainingPool(cells, selected)
           IN IF SumCells(selected) < QUESTIONS_PER_MODULE
              THEN {AddCells(selected, additional) :
                       additional \in Samples(remaining_pool,
                                              Min(QUESTIONS_PER_MODULE - SumCells(selected),
                                                  SumCells(remaining_pool)))}
              ELSE {selected}
           : selected \in CategorySelections(bank, section, difficulty_level, Len(CategoryOrder))}

\* questions of a selection that are of the other section
ForeignCells(selected, section) ==
    SumCells([i \in 1..Len(selected) |->
               IF CategorySection(CellOrder[i].category_id) = section THEN 0 ELSE selected[i]])

\* questions of a selection beyond the size of their cell: taken twice
RepeatedCells(cells, selected) ==
    SumCells([i \in 1..Len(selected) |-> Max(0, selected[i] - cells[i])])

\* the numbers of questions two selections can have in common
SharedCounts(cells, first, second) ==
    SumCells([i \in 1..Len(first) |-> Max(0, first[i] + second[i] - cells[i])])
        ..SumCells([i \in 1..Len(first) |-> Min(first[i], second[i])])

\* the rows a selection inserts: <<rows, foreign rows, repeated rows>>
InsertedRows(cells, selected, section) ==
    <<Min(QUESTIONS_PER_MODULE, SumCells(selected)), ForeignCells(selected, section),
      RepeatedCells(cells, selected)>>

\* _generate_module_questions(module_id, module_type, difficulty_level) for module 1
generate_module_1(m, difficulty_level) ==
    \E selected \in ModuleSelections(question_bank, section_prefix(m), difficulty_level) :
        LET rows == InsertedRows(BankCells(question_bank), selected, section_prefix(m))
        IN /\ nRows' = [nRows EXCEPT ![m] = @ + rows[1]]
           /\ foreign_rows' = [foreign_rows EXCEPT ![m] = @ + rows[2]]
           /\ repeated_rows' = [repeated_rows EXCEPT ![m] = @ + rows[3]]
           /\ display_order' = [display_order EXCEPT ![m] = @ \cup (1..rows[1])]
           /\ stage1_cells' = [stage1_cells EXCEPT ![section_prefix(m)] = selected]
           /\ UNCHANGED <<exam, modStatus, raw_score, nCorrect, next_difficulty, submits,
                          question_bank, shared_rows>>

\* the outcomes of a generation for module 2: its rows and the number of its
\* questions that module 1 of the section holds as well
Module2Outcomes(bank, section, difficulty_level, first) ==
    LET cells == BankCells(bank)
    IN UNION {LET rows == InsertedRows(cells, selected, section)
              IN {<<rows, shared>> : shared \in SharedCounts(cells, first, selected)}
              : selected \in ModuleSelections(bank, section, difficulty_level)}

\* _generate_module_questions(module_id, module_type, difficulty_level) for module 2
generate_module_2(m, difficulty_level) ==
    \E outcome \in Module2Outcomes(question_bank, section_prefix(m), difficulty_level,
                                   stage1_cells[section_prefix(m)]) :
        /\ nRows' = [nRows EXCEPT ![m] = @ + outcome[1][1]]
        /\ foreign_rows' = [foreign_rows EXCEPT ![m] = @ + outcome[1][2]]
        /\ repeated_rows' = [repeated_rows EXCEPT ![m] = @ + outcome[1][3]]
        /\ display_order' = [display_order EXCEPT ![m] = @ \cup (1..outcome[1][1])]
        /\ shared_rows' = [shared_rows EXCEPT ![section_prefix(m)] = outcome[2]]
        /\ next_difficulty' = [next_difficulty EXCEPT ![section_prefix(m)] = difficulty_level]
        /\ UNCHANGED <<exam, modStatus, raw_score, nCorrect, submits, question_bank,
                       stage1_cells>>

\* create_mock_exam's generation for module 1 of a section; a behaviour follows
\* one section of the exam, as the generations of the two sections share no state
GenerateModule1 ==
    \E m \in Modules :
        /\ module_number(m) = 1
        /\ \A section \in Sections : stage1_cells[section] = <<>>
        /\ generate_module_1(m, "medium")

\* complete_module's generation for module 2 of the section
GenerateModule2 ==
    \E m \in Modules : \E difficulty_level \in {"easy", "medium", "hard"} :
        /\ module_number(m) = 2
        /\ stage1_cells[section_prefix(m)] # <<>>
        /\ next_difficulty[section_prefix(m)] = "none"
        /\ generate_module_2(m, difficulty_level)

\* an exam without questions and a bank with the same number of questions in
\* every cell
InitCells ==
    /\ exam = [NoExam EXCEPT !.status = "not_started"]
    /\ modStatus = [m \in Modules |-> "not_started"]
    /\ raw_score = [m \in Modules |-> NULL]
    /\ nRows = [m \in Modules |-> 0]
    /\ nCorrect = [m \in Modules |-> 0]
    /\ next_difficulty = [s \in Sections |-> "none"]
    /\ submits = 0
    /\ \E per_cell \in CellSizes :
          question_bank = [c \in Categories |-> [d \in Difficulties |-> per_cell]]
    /\ NoRows
    /\ IdleMastery /\ IdleRace /\ IdlePack /\ IdleSession /\ IdleScheduler /\ IdlePlan

NextCells ==
    \/ GenerateModule1 /\ UNCHANGED <<masteryVars, raceVars, packVars, sessionVars, schedulerVars, planVars>>
    \/ GenerateModule2 /\ UNCHANGED <<masteryVars, raceVars, packVars, sessionVars, schedulerVars, planVars>>

SpecCells == InitCells /\ [][NextCells]_vars

-----------------------------------------------------------------------------
(* generate_next_batch and update_mastery with a store call that may fail:   *)
(* every .execute() is one request to the database, and a failed request      *)
(* raises out of the operation.                                               *)

QUESTIONS_PER_SESSION == 25

\* largest `days` of generate_next_batch
MaxDays == 2

\* largest priority of a focus topic
MaxPriority == 2

\* largest number of service calls in one run with failing store calls
MaxFaultCalls == 2

\* priorities of the focus topics, highest first (the order of TopicOrder)
FocusPriorities ==
    {priority \in [Topics -> 0..MaxPriority] :
        \A k \in 1..(Len(TopicOrder) - 1) : priority[TopicOrder[k]] >= priority[TopicOrder[k + 1]]}

\* topic_distribution of generate_next_batch: proportional shares, then the
\* remainder one by one to the first topics that have a share
BatchDistribution(priority, days) ==
    LET total_questions == QUESTIONS_PER_SESSION * days
        total_priority == SumValues(priority)
        share == [t \in Topics |-> IF total_priority > 0
                                   THEN (total_questions * priority[t]) \div total_priority
                                   ELSE 0]
        remainder == total_questions - SumValues(share)
    IN [t \in Topics |->
          share[t] + (IF /\ total_priority > 0
                         /\ share[t] > 0
                         /\ \E k \in 1..Len(TopicOrder) : TopicOrder[k] = t /\ k <= remainder
                      THEN 1 ELSE 0)]

\* the store calls of the save loop: call 2k-1 inserts the practice_sessions row of
\* session k, call 2k inserts its session_questions; fail_at = 0: no call fails
SessionInserts(num_sessions, fail_at) ==
    IF fail_at = 0 \/ fail_at > 2 * num_sessions THEN num_sessions ELSE fail_at \div 2

QuestionInserts(num_sessions, fail_at) ==
    IF fail_at = 0 \/ fail_at > 2 * num_sessions THEN num_sessions ELSE (fail_at - 1) \div 2

\* date.today(): dates are counted in days from the day of the call
Today == 0

\* schedule_sessions(sessions, start_date, total_days): session i (from 0) is put
\* on day int(i / (total_sessions / total_days)) + 1 after start_date and numbered i + 1
\* (for up to 17 sessions the float quotient has the integer part of the exact one)
schedule_sessions(total_sessions, start_date, total_days) ==
    [k \in 1..total_sessions |->
        [session_number |-> k,
         scheduled_date |-> start_date + ((k - 1) * total_days) \div total_sessions + 1]]

\* the practice_sessions rows of a study plan
PlanSessions(study_plan_id) ==
    {k \in 1..Len(session_schedule) : session_schedule[k].study_plan_id = study_plan_id}

\* start date of a batch: the day after the plan's last scheduled session, or
\* tomorrow for the first batch
BatchStartDate(study_plan_id) ==
    IF PlanSessions(study_plan_id) # {}
    THEN (CHOOSE last \in {session_schedule[k].scheduled_date : k \in PlanSessions(study_plan_id)} :
             \A k \in PlanSessions(study_plan_id) : session_schedule[k].scheduled_date <= last) + 1
    ELSE Today + 1

\* generate_next_batch(study_plan_id, days) whose store call number fail_at fails
generate_next_batch(study_plan_id, days, fail_at) ==
    LET distribution == BatchDistribution(focus_topics, days)
        sessions == group_topics_into_sessions(distribution, days)
        scheduled_sessions == schedule_sessions(Len(sessions), BatchStartDate(study_plan_id), days)
        inserted == SessionInserts(Len(sessions), fail_at)
        assigned == QuestionInserts(Len(sessions), fail_at)
        failed == fail_at # 0 /\ fail_at <= 2 * Len(sessions)
    IN /\ topic_distribution' = distribution
       /\ target_total_sessions' = days
       /\ all_sessions' = sessions
       /\ packed' = TRUE
       /\ practice_sessions' = practice_sessions \o [i \in 1..inserted |-> "pending"]
       /\ session_schedule' = session_schedule \o
              [i \in 1..inserted |->
                  [study_plan_id |-> study_plan_id,
                   session_number |-> scheduled_sessions[i].session_number,
                   scheduled_date |-> scheduled_sessions[i].scheduled_date]]
       /\ session_questions' = session_questions \o
              [i \in 1..inserted |->
                  [rows |-> IF i <= assigned THEN SessionCount(sessions[i]) ELSE 0,
                   answered |-> 0]]
       /\ response' = [op |-> "generate_next_batch", user_id |-> "owner",
                       result |-> IF failed THEN "error" ELSE "ok"]
       /\ UNCHANGED <<focus_topics, performance_snapshots>>

\* the store calls of update_mastery, in the order they are made
MasterySteps == <<"insert", "update", "log_updated", "log_achieved", "log_plateau">>

\* the events logged when the insert of `failed_step` fails
LoggedEvents(events, failed_step) ==
    IF failed_step = "log_updated" THEN {}
    ELSE IF failed_step = "log_achieved" /\ "mastery_achieved" \in events THEN {"mastery_updated"}
    ELSE IF failed_step = "log_plateau" /\ "plateau_detected" \in events
         THEN events \ {"plateau_detected"}
    ELSE events

\* update_mastery(user_id, skill_id, is_correct) whose store call failed_step fails
\* ("none": no call fails; a call the update does not make cannot fail)
update_mastery_failing(is_correct, failed_step) ==
    LET existing == get_user_mastery(user_skill_mastery)
        created == IF existing = 0 THEN Append(user_skill_mastery, DefaultRecord)
                   ELSE user_skill_mastery
        id == get_user_mastery(created)
        mastery_record == created[id]
        events == EventsOf(mastery_record, is_correct)
        failed == \/ failed_step = "insert" /\ existing = 0
                  \/ failed_step = "update"
                  \/ LoggedEvents(events, failed_step) # events
    IN /\ mastery_record.total_attempts < MaxAttempts
       /\ user_skill_mastery' =
             IF failed_step = "insert" /\ existing = 0 THEN user_skill_mastery
             ELSE IF failed_step = "update" THEN created
             ELSE UpdateRow(created, id, UpdatedRecord(mastery_record, is_correct))
       /\ learning_events' =
             IF (failed_step = "insert" /\ existing = 0) \/ failed_step = "update" THEN {}
             ELSE LoggedEvents(events, failed_step)
       /\ response' = [op |-> "update_mastery", user_id |-> "owner",
                       result |-> IF failed THEN "error" ELSE "ok"]

GenerateNextBatch ==
    \E fail_at \in 0..(2 * MaxDays) :
        /\ requests < MaxFaultCalls
        /\ requests' = requests + 1
        /\ generate_next_batch(1, target_total_sessions, fail_at)
        /\ UNCHANGED <<masteryVars, study_plans, plan_pc, plan_id>>

UpdateMastery ==
    \E is_correct \in BOOLEAN :
        \E failed_step \in {MasterySteps[k] : k \in 1..Len(MasterySteps)} \cup {"none"} :
            /\ requests < MaxFaultCalls
            /\ requests' = requests + 1
            /\ update_mastery_failing(is_correct, failed_step)
            /\ UNCHANGED <<packVars, practiceVars, planVars>>

\* a study plan without sessions, the priorities of its focus topics, the `days`
\* of the batches to come, and no mastery record yet
InitFault ==
    /\ target_total_sessions \in 1..MaxDays
    /\ focus_topics \in FocusPriorities
    /\ study_plans = <<[start_date |-> Today, is_active |-> TRUE]>>
    /\ topic_distribution = <<>>
    /\ all_sessions = <<>>
    /\ packed = FALSE
    /\ session_schedule = <<>>
    /\ plan_pc = [w \in Workers |-> "idle"]
    /\ plan_id = [w \in Workers |-> 0]
    /\ IdleMastery /\ IdleRace /\ IdleExam /\ IdleSession /\ IdleBank /\ IdleScheduler

NextFault ==
    \/ GenerateNextBatch /\ UNCHANGED <<raceVars, examVars, bankVars, schedulerVars>>
    \/ UpdateMastery /\ UNCHANGED <<raceVars, examVars, bankVars, schedulerVars>>

SpecFault == InitFault /\ [][NextFault]_vars

-----------------------------------------------------------------------------
(* Specification of the session packer *)

\* a call of group_topics_into_sessions on the drawn input
Pack ==
    /\ ~packed
    /\ all_sessions' = group_topics_into_sessions(topic_distribution, target_total_sessions)
    /\ packed' = TRUE
    /\ UNCHANGED <<topic_distribution, target_total_sessions>>

\* the one-section allocation {skillA: 47, skillB: 3}
ScenarioB == [m1 |-> 47, m2 |-> 3, r1 |-> 0]

InitPack ==
    /\ topic_distribution \in [Topics -> 0..MaxTopicQuestions] \cup {ScenarioB}
    /\ target_total_sessions \in 0..MaxTarget
    /\ all_sessions = <<>>
    /\ packed = FALSE
    /\ IdleMastery /\ IdleRace /\ IdleExam /\ IdleSession /\ IdleBank /\ IdleScheduler /\ IdlePlan

NextPack == Pack /\ UNCHANGED <<masteryVars, raceVars, examVars, sessionVars, bankVars, schedulerVars, planVars>>

SpecPack == InitPack /\ [][NextPack]_vars

-----------------------------------------------------------------------------
(* Specifications of the mastery model *)

InitMastery ==
    /\ user_skill_mastery = <<>>
    /\ learning_events = {}
    /\ IdleRace /\ IdlePack /\ IdleExam /\ IdleSession /\ IdleBank /\ IdleScheduler /\ IdlePlan

NextMastery ==
    \/ AnswerCorrect /\ UNCHANGED <<raceVars, packVars, examVars, sessionVars, bankVars, schedulerVars, planVars>>
    \/ AnswerIncorrect /\ UNCHANGED <<raceVars, packVars, examVars, sessionVars, bankVars, schedulerVars, planVars>>
    \/ Diagnostic /\ UNCHANGED <<raceVars, packVars, examVars, sessionVars, bankVars, schedulerVars, planVars>>
    \/ DiagnosticUncovered /\ UNCHANGED <<raceVars, packVars, examVars, sessionVars, bankVars, schedulerVars, planVars>>

SpecMastery == InitMastery /\ [][NextMastery]_vars

\* records whose BKT parameters were set outside the defaults, the extreme values
\* 0 and 1 included, two updates before the run's last one
ParameterRecords ==
    {[DefaultRecord EXCEPT !.mastery_probability = mastery,
                           !.prior_knowledge = mastery,
                           !.learn_rate = learn,
                           !.guess_probability = guess,
                           !.slip_probability = slip,
                           !.total_attempts = MaxAttempts - 2] :
        mastery \in {MASTERY_MIN, DEFAULT_PRIOR, UNIT \div 2, MASTERY_MAX},
        learn \in {0, DEFAULT_LEARN},
        guess \in {0, DEFAULT_GUESS, PCT \div 2, PCT},
        slip \in {0, DEFAULT_SLIP, PCT \div 2, PCT}}

InitParameters ==
    /\ \E rec \in ParameterRecords : user_skill_mastery = <<rec>>
    /\ learning_events = {}
    /\ IdleRace /\ IdlePack /\ IdleExam /\ IdleSession /\ IdleBank /\ IdleScheduler /\ IdlePlan

NextParameters ==
    \/ AnswerCorrect /\ UNCHANGED <<raceVars, packVars, examVars, sessionVars, bankVars, schedulerVars, planVars>>
    \/ AnswerIncorrect /\ UNCHANGED <<raceVars, packVars, examVars, sessionVars, bankVars, schedulerVars, planVars>>

SpecParameters == InitParameters /\ [][NextParameters]_vars

InitRace ==
    /\ initialRows \in RaceStartRows
    /\ user_skill_mastery = initialRows
    /\ learning_events = {}
    /\ wpc = [w \in Workers |-> "idle"]
    /\ wrec = [w \in Workers |-> [id |-> 0, row |-> DefaultRecord]]
    /\ wans = [w \in Workers |-> FALSE]
    /\ IdlePack /\ IdleExam /\ IdleSession /\ IdleBank /\ IdleScheduler /\ IdlePlan

NextRace ==
    \/ \E w \in Workers : \E is_correct \in BOOLEAN :
          RaceGet(w, is_correct) /\ UNCHANGED <<packVars, examVars, sessionVars, bankVars, schedulerVars, planVars>>
    \/ \E w \in Workers : RaceCreate(w) /\ UNCHANGED <<packVars, examVars, sessionVars, bankVars, schedulerVars, planVars>>
    \/ \E w \in Workers : RaceWrite(w) /\ UNCHANGED <<packVars, examVars, sessionVars, bankVars, schedulerVars, planVars>>

SpecRace == InitRace /\ [][NextRace]_vars


-----------------------------------------------------------------------------
(* DynamicScheduler: recommendation-mode priorities (scheduler.py).         *)
(* mastery_score and base weights are integers in units of 1e-2, the        *)
(* forgetting factor in units of 1e-3, a priority score their product.      *)

MaxDaysSince == 1
MaxTopN == 3

\* ALL_TOPICS (three of its entries) and a topic that is not in the table
SchedulerTopics == <<"Linear functions", "Circles", "Unlisted topic">>

MasteryScores == {0, 25, 100}

\* ALL_TOPICS.get(mastery.topic, 0.8)
base_weight(topic) ==
    CASE topic = "Linear functions" -> 100
      [] topic = "Circles" -> 75
      [] OTHER -> 80

\* calculate_forgetting_factor: ln(d + 1) + 1, to three decimals
calculate_forgetting_factor(days_since_study) ==
    <<1000, 1693, 2099, 2386, 2609, 2792, 2946, 3079>>[days_since_study + 1]

calculate_mastery_gap(mastery_score) == PCT - mastery_score

calculate_priority(mastery) ==
    [topic |-> mastery.topic,
     priority_score |-> calculate_mastery_gap(mastery.mastery_score)
                            * base_weight(mastery.topic)
                            * calculate_forgetting_factor(mastery.days_since_study),
     mastery_gap |-> calculate_mastery_gap(mastery.mastery_score),
     base_weight |-> base_weight(mastery.topic),
     forgetting_factor |-> calculate_forgetting_factor(mastery.days_since_study),
     days_since_study |-> mastery.days_since_study]

\* list.sort(key = priority_score, reverse = True) is stable: p goes behind
\* every element whose score is not lower
RECURSIVE InsertByPriority(_, _)
InsertByPriority(p, sorted) ==
    IF sorted = <<>> THEN <<p>>
    ELSE IF Head(sorted).priority_score >= p.priority_score
         THEN <<Head(sorted)>> \o InsertByPriority(p, Tail(sorted))
         ELSE <<p>> \o sorted

RECURSIVE SortByPriority(_)
SortByPriority(ps) ==
    IF ps = <<>> THEN <<>>
    ELSE InsertByPriority(ps[Len(ps)], SortByPriority(SubSeq(ps, 1, Len(ps) - 1)))

Priorities(ms) == SortByPriority([i \in 1..Len(ms) |-> calculate_priority(ms[i])])

\* get_top_topics: priorities[:n]
get_top_topics(ms, n) == SubSeq(Priorities(ms), 1, Min(n, Len(ms)))

\* get_next_topic: priorities[0] if priorities else None (<<>> stands for None)
get_next_topic(ms) == SubSeq(Priorities(ms), 1, Min(1, Len(ms)))

GetTopTopics ==
    /\ ~top_topics.called
    /\ \E n \in 1..MaxTopN : top_topics' = [called |-> TRUE, value |-> get_top_topics(masteries, n)]
    /\ UNCHANGED <<masteries, next_topic>>

GetNextTopic ==
    /\ ~next_topic.called
    /\ next_topic' = [called |-> TRUE, value |-> get_next_topic(masteries)]
    /\ UNCHANGED <<masteries, top_topics>>

\* the values of a masteries dict in insertion order: distinct topics
TopicMasteries ==
    [topic : {SchedulerTopics[i] : i \in 1..Len(SchedulerTopics)},
     mastery_score : MasteryScores,
     days_since_study : 0..MaxDaysSince]

MasteryMaps ==
    UNION {{ms \in [1..k -> TopicMasteries] :
                \A i, j \in 1..k : i # j => ms[i].topic # ms[j].topic}
           : k \in 0..Len(SchedulerTopics)}

InitScheduler ==
    /\ masteries \in MasteryMaps
    /\ top_topics = NotCalled
    /\ next_topic = NotCalled
    /\ IdleMastery /\ IdleRace /\ IdlePack /\ IdleExam /\ IdleSession /\ IdleBank /\ IdlePlan

NextScheduler ==
    \/ GetTopTopics /\ UNCHANGED <<masteryVars, raceVars, packVars, examVars, sessionVars, bankVars, planVars>>
    \/ GetNextTopic /\ UNCHANGED <<masteryVars, raceVars, packVars, examVars, sessionVars, bankVars, planVars>>

SpecScheduler == InitScheduler /\ [][NextScheduler]_vars

-----------------------------------------------------------------------------
(* generate_study_plan and the batches of a plan, one call after the other.  *)

\* largest priority of a focus topic in the runs of whole plans
MaxBatchPriority == 24

\* largest number of generate_study_plan / generate_next_batch calls in one run
MaxBatchCalls == 2

\* latest start_date a caller passes, in days from today
MaxStartDelay == 1

\* days of the first batch of a new plan
FIRST_BATCH_DAYS == 14

\* priorities of the focus topics, highest first: absent, low and one high level
BatchPriorities ==
    {priority \in [Topics -> (0..MaxPriority) \cup {MaxBatchPriority}] :
        \A k \in 1..(Len(TopicOrder) - 1) : priority[TopicOrder[k]] >= priority[TopicOrder[k + 1]]}

\* start_date of generate_study_plan: date.today() when None is passed
StartDates == Today..(Today + MaxStartDelay)

\* update study_plans set is_active = False where user_id = .. and is_active
deactivate_plans(plans) == [k \in 1..Len(plans) |-> [plans[k] EXCEPT !.is_active = FALSE]]

\* insert into study_plans
insert_plan(plans, start_date) == Append(plans, [start_date |-> start_date, is_active |-> TRUE])

\* generate_study_plan(user_id, .., start_date)
generate_study_plan(start_date) ==
    /\ study_plans' = insert_plan(deactivate_plans(study_plans), start_date)
    /\ generate_next_batch(Len(study_plans) + 1, FIRST_BATCH_DAYS, 0)

GenerateStudyPlan ==
    \E start_date \in StartDates :
        /\ requests < MaxBatchCalls
        /\ requests' = requests + 1
        /\ generate_study_plan(start_date)
        /\ UNCHANGED <<masteryVars, plan_pc, plan_id>>

\* a later generate_next_batch(study_plan_id, days) on the active plan
GenerateLaterBatch ==
    \E days \in 1..MaxDays : \E study_plan_id \in 1..Len(study_plans) :
        /\ study_plans[study_plan_id].is_active
        /\ requests < MaxBatchCalls
        /\ requests' = requests + 1
        /\ generate_next_batch(study_plan_id, days, 0)
        /\ UNCHANGED <<masteryVars, study_plans, plan_pc, plan_id>>

InitBatch ==
    /\ focus_topics \in BatchPriorities
    /\ study_plans = <<>>
    /\ session_schedule = <<>>
    /\ plan_pc = [w \in Workers |-> "idle"]
    /\ plan_id = [w \in Workers |-> 0]
    /\ IdleMastery /\ IdleRace /\ IdlePack /\ IdleExam /\ IdleSession /\ IdleBank /\ IdleScheduler

NextBatch ==
    \/ GenerateStudyPlan /\ UNCHANGED <<raceVars, examVars, bankVars, schedulerVars>>
    \/ GenerateLaterBatch /\ UNCHANGED <<raceVars, examVars, bankVars, schedulerVars>>

SpecBatch == InitBatch /\ [][NextBatch]_vars

-----------------------------------------------------------------------------
(* generate_study_plan called by concurrent requests: each store call is one *)
(* step, and the steps of two calls interleave at the database.              *)

\* largest number of generate_study_plan calls in one concurrent run
MaxPlanCalls == 3

\* update study_plans set is_active = False ... (first store call)
PlanDeactivate(w) ==
    /\ plan_pc[w] \in {"idle", "done"}
    /\ requests < MaxPlanCalls
    /\ requests' = requests + 1
    /\ study_plans' = deactivate_plans(study_plans)
    /\ plan_pc' = [plan_pc EXCEPT ![w] = "deactivated"]
    /\ UNCHANGED <<plan_id, focus_topics, session_schedule, masteryVars, packVars, practiceVars, response>>

\* insert into study_plans (second store call)
PlanInsert(w) ==
    /\ plan_pc[w] = "deactivated"
    /\ study_plans' = insert_plan(study_plans, Today)
    /\ plan_id' = [plan_id EXCEPT ![w] = Len(study_plans) + 1]
    /\ plan_pc' = [plan_pc EXCEPT ![w] = "inserted"]
    /\ UNCHANGED <<focus_topics, session_schedule, masteryVars, packVars, sessionVars>>

\* generate_next_batch(study_plan_id, days=14) of the inserted plan
PlanFirstBatch(w) ==
    /\ plan_pc[w] = "inserted"
    /\ generate_next_batch(plan_id[w], FIRST_BATCH_DAYS, 0)
    /\ plan_pc' = [plan_pc EXCEPT ![w] = "done"]
    /\ UNCHANGED <<study_plans, plan_id, masteryVars, requests>>

InitPlanRace ==
    /\ focus_topics \in FocusPriorities
    /\ study_plans = <<>>
    /\ session_schedule = <<>>
    /\ plan_pc = [w \in Workers |-> "idle"]
    /\ plan_id = [w \in Workers |-> 0]
    /\ IdleMastery /\ IdleRace /\ IdlePack /\ IdleExam /\ IdleSession /\ IdleBank /\ IdleScheduler

NextPlanRace ==
    \/ \E w \in Workers : PlanDeactivate(w) /\ UNCHANGED <<raceVars, examVars, bankVars, schedulerVars>>
    \/ \E w \in Workers : PlanInsert(w) /\ UNCHANGED <<raceVars, examVars, bankVars, schedulerVars>>
    \/ \E w \in Workers : PlanFirstBatch(w) /\ UNCHANGED <<raceVars, examVars, bankVars, schedulerVars>>

SpecPlanRace == InitPlanRace /\ [][NextPlanRace]_vars

-----------------------------------------------------------------------------
(* Claims on the mastery model *)

\* C1: after any sequence of update_mastery calls and diagnostic initializations,
\* every stored mastery_probability lies in [0.01, 0.99]; it never reaches 0 or 1.
C1_MasteryWithinBounds ==
    \A id \in 1..Len(user_skill_mastery) :
        /\ user_skill_mastery[id].mastery_probability >= MASTERY_MIN
        /\ user_skill_mastery[id].mastery_probability <= MASTERY_MAX
        /\ user_skill_mastery[id].mastery_probability > 0
        /\ user_skill_mastery[id].mastery_probability < UNIT

\* C1 witness: an update has just run and its result was held at the upper bound
C1_Witness ==
    /\ "mastery_updated" \in learning_events
    /\ Len(user_skill_mastery) = 1
    /\ user_skill_mastery[1].mastery_probability = MASTERY_MAX
    /\ user_skill_mastery[1].total_attempts >= 2

\* the record a concurrent run starts from
RaceBase == IF initialRows = <<>> THEN DefaultRecord ELSE initialRows[1]

\* C2: for every interleaving of the read and write steps of two concurrent
\* update_mastery calls on the same key, the final record reflects both answers:
\* total_attempts has grown by exactly 2 and the mastery is that of applying both
\* updates in some order.
C2_NoLostUpdate ==
    (\A w \in Workers : wpc[w] = "done") =>
        LET final == user_skill_mastery[get_user_mastery(user_skill_mastery)]
        IN /\ final.total_attempts = RaceBase.total_attempts + 2
           /\ \/ final = UpdatedRecord(UpdatedRecord(RaceBase, wans[1]), wans[2])
              \/ final = UpdatedRecord(UpdatedRecord(RaceBase, wans[2]), wans[1])


-----------------------------------------------------------------------------
(* Claims on the session packer *)

\* the questions of one topic summed over all returned sessions
PackedQuestions(sessions, topic_id) ==
    SumSeq([i \in 1..Len(sessions) |->
              SumSeq([k \in 1..Len(sessions[i]) |->
                        IF sessions[i][k].topic_id = topic_id
                        THEN sessions[i][k].num_questions ELSE 0])])

\* a final session that holds merged overflow sessions
HasMergedSession ==
    /\ target_total_sessions # 0
    /\ \E i \in 1..Len(all_sessions) : SessionCount(all_sessions[i]) > MAX_QUESTIONS

\* C3: the packer never drops a question: for every allocation and every target
\* (None included) each topic's num_questions summed over the returned sessions
\* equals the topic's input count, also after overflow sessions were merged.
C3_Conservation ==
    packed => \A t \in Topics : PackedQuestions(all_sessions, t) = topic_distribution[t]

\* C3 witness: a packing that merged overflow sessions of an allocation with every
\* topic present and uneven splits
C3_Witness ==
    /\ packed
    /\ HasMergedSession
    /\ \A t \in Topics : topic_distribution[t] > 0
    /\ topic_distribution["m1"] % 2 = 1
    /\ \A t \in Topics : PackedQuestions(all_sessions, t) = topic_distribution[t]

\* C4: every returned session holds at most MAX_PER_SESSION = 25 questions, for
\* every allocation and every target-session value.
C4_SessionCap ==
    packed => \A i \in 1..Len(all_sessions) : SessionCount(all_sessions[i]) <= MAX_QUESTIONS

\* C5: every returned session is pure: all its topics belong to one section, for
\* every allocation and target, merged final sessions included.
C5_Purity ==
    packed => \A i \in 1..Len(all_sessions) :
                 \A k, j \in 1..Len(all_sessions[i]) :
                    Section(all_sessions[i][k].topic_id) = Section(all_sessions[i][j].topic_id)

\* C5 witness: sessions of both sections were returned, one of them a merged
\* session with two topics
C5_Witness ==
    /\ packed
    /\ HasMergedSession
    /\ \E i \in 1..Len(all_sessions) : Section(all_sessions[i][1].topic_id) = "math"
    /\ \E i \in 1..Len(all_sessions) : Section(all_sessions[i][1].topic_id) = "reading_writing"
    /\ \E i \in 1..Len(all_sessions) :
          Len(all_sessions[i]) = 2 /\ SessionCount(all_sessions[i]) > MAX_QUESTIONS


-----------------------------------------------------------------------------
(* Claims on the mock exam *)

\* the steps a module's status may take: stay, not_started -> in_progress,
\* in_progress -> completed
StatusStep(before, after) ==
    \/ after = before
    \/ before = "not_started" /\ after = "in_progress"
    \/ before = "in_progress" /\ after = "completed"

\* C6: a module's status only ever moves along not_started -> in_progress ->
\* completed: no start_module, submit_answer or complete_module call moves it back
\* to an earlier status, and none completes a module that was not in_progress.
C6_StatusOnlyForward ==
    [][\A m \in Modules : modStatus[m] # "none" => StatusStep(modStatus[m], modStatus'[m])]_vars

\* C7: module 1 of each section has its questions from create_mock_exam on, and
\* module 2 of a section has no questions in any state in which module 1 of that
\* section is not completed.
C7_Module2AfterModule1 ==
    exam.status # "none" =>
        \A s \in Sections :
            /\ nRows[first_module_type(s)] > 0
            /\ modStatus[first_module_type(s)] # "completed" =>
                   nRows[next_module_type(first_module_type(s))] = 0

\* C8: a module's raw_score is set exactly once, at completion: it is set only by
\* a step that completes the module, and once set no later operation changes it.
C8_RawScoreSetOnce ==
    [][\A m \in Modules :
          /\ raw_score[m] # NULL => raw_score'[m] = raw_score[m]
          /\ (raw_score[m] = NULL /\ raw_score'[m] # NULL) => modStatus'[m] = "completed"]_vars

\* C9: module 2 question generation runs at most once per (exam, section): after
\* any sequence of complete_module calls module 2 holds the questions of a single
\* generation, at most 27 rows.
C9_SingleGeneration ==
    \A s \in Sections : nRows[next_module_type(first_module_type(s))] <= QUESTIONS_PER_MODULE

\* C10: on completing module 1 with c correct answers of 27, module 2 is generated
\* hard iff c/27 >= 0.70, medium (balanced) iff 0.40 <= c/27 < 0.70 and easy iff
\* c/27 < 0.40; 20/27 gives hard.
C10_BranchByScore ==
    \A s \in Sections :
        LET c == raw_score[first_module_type(s)]
        IN next_difficulty[s] # "none" =>
              /\ c \in 0..QUESTIONS_PER_MODULE
              /\ next_difficulty[s] = "hard" <=> 100 * c >= 70 * 27
              /\ next_difficulty[s] = "medium" <=> (100 * c >= 40 * 27 /\ 100 * c < 70 * 27)
              /\ next_difficulty[s] = "easy" <=> 100 * c < 40 * 27
              /\ c = 20 => next_difficulty[s] = "hard"

\* C10 witness: module 1 completed with 20 of 27 correct and module 2 generated
\* hard, the other section at the lower boundary (10 correct, easy)
C10_Witness ==
    /\ raw_score["rw_module_1"] = 20
    /\ next_difficulty["rw"] = "hard"
    /\ nRows["rw_module_2"] = QUESTIONS_PER_MODULE
    /\ raw_score["math_module_1"] = 10
    /\ next_difficulty["math"] = "easy"

\* the scaled score the exam row holds for a section
SectionScore(section) == IF section = "math" THEN exam.math_score ELSE exam.rw_score

\* C11: for every section raw score r in 0..54 the scaled score of a finalized exam
\* is clamp(round((r/54 * 600 + 200) / 10) * 10, 200, 800): a multiple of 10 in
\* [200, 800], the multiple nearest to 200 + 600 r / 54, non-decreasing in r, 200 at
\* r = 0 and 800 at r = 54.
C11_ScaledScore ==
    exam.status = "completed" =>
        /\ \A s \in Sections :
              LET r == SectionRaw(raw_score, s)
                  scaled == SectionScore(s)
                  exact54 == 200 * 54 + 600 * r      \* 54 * (r/54 * 600 + 200)
              IN /\ r \in 0..54
                 /\ scaled \in 200..800
                 /\ scaled % 10 = 0
                 /\ 54 * scaled - exact54 <= 5 * 54
                 /\ exact54 - 54 * scaled <= 5 * 54
                 /\ r = 0 => scaled = 200
                 /\ r = 54 => scaled = 800
        /\ \A s, t \in Sections :
              SectionRaw(raw_score, s) <= SectionRaw(raw_score, t)
                 => SectionScore(s) <= SectionScore(t)
        /\ exam.total_score = exam.math_score + exam.rw_score

\* C11 witness: an exam finalized with all 54 reading-writing answers right (800)
\* and no math answer right (200)
C11_Witness ==
    /\ exam.status = "completed"
    /\ SectionRaw(raw_score, "rw") = 54
    /\ exam.rw_score = 800
    /\ SectionRaw(raw_score, "math") = 0
    /\ exam.math_score = 200

\* C12 as stated: a section raw score of 40 correct out of 54 converts to 650.
C12_FortyOf54Is650 ==
    \A s \in Sections :
        (exam.status = "completed" /\ SectionRaw(raw_score, s) = 40) => SectionScore(s) = 650

\* C12 amended: a section raw score of 40 correct out of 54 converts to 640
\* (200 + 40/54 * 600 = 644.4, whose nearest multiple of 10 is 640).
C12_FortyOf54Is640 ==
    \A s \in Sections :
        (exam.status = "completed" /\ SectionRaw(raw_score, s) = 40) => SectionScore(s) = 640

\* C12 witness: an exam finalized with 40 of 54 math answers right
C12_Witness ==
    /\ exam.status = "completed"
    /\ modStatus["math_module_2"] = "completed"
    /\ SectionRaw(raw_score, "math") = 40
    /\ exam.math_score = 640

\* C13: a call by a user who does not own the addressed entity is rejected before
\* any mutation: start_module, complete_module and submit_answer on a mock-exam
\* module and answer submission and completion on a practice session, called by a
\* non-owner, answer with the permission error and leave every stored record
\* (module, exam, question rows, practice session, mastery) unchanged.
C13_NonOwnerRejected ==
    [][response'.user_id = "other" =>
          /\ response'.result = "forbidden"
          /\ UNCHANGED <<examVars, practiceVars, masteryVars>>]_vars

\* C13 witness: a non-owner's complete_module on a started exam with an answered
\* question was answered with the permission error
C13_Witness ==
    /\ response = [op |-> "complete_module", user_id |-> "other", result |-> "forbidden"]
    /\ exam.status = "in_progress"
    /\ \E m \in Modules : modStatus[m] = "in_progress" /\ nCorrect[m] > 0 /\ raw_score[m] = NULL

\* C14: mutating operations are all-or-nothing on failure: when generate_next_batch
\* or update_mastery fails at a store call, the persisted state equals the state
\* before the operation: no practice_sessions or session_questions rows of a partly
\* created batch remain, and the mastery record is not left updated (or created)
\* when a later write of the update failed.
C14_AllOrNothing ==
    [][response'.result = "error" =>
          UNCHANGED <<practice_sessions, session_questions, user_skill_mastery>>]_vars

\* C15: an exam is finalized only on completion of its final module: in every
\* reachable state, exam status = completed implies that all four of its modules
\* have status completed.
C15_CompletedExamHasCompletedModules ==
    exam.status = "completed" => \A m \in Modules : modStatus[m] = "completed"

\* C16: every question assigned to an exam module belongs to that module's
\* section: when a category/difficulty cell is short, the fallback fill draws only
\* from remaining unused questions of the same section, never from the other one.
C16_SameSectionOnly ==
    \A m \in Modules : foreign_rows[m] = 0

\* C17: initialize is an idempotent get-or-create: called when a record exists it
\* creates nothing, so after any number of initialize / first-time update calls,
\* two concurrent ones included, there is exactly one mastery record for the
\* (learner, skill): never more than one, and one as soon as a call has got or
\* created its record.
C17_OneRecordPerKey ==
    /\ Len(user_skill_mastery) <= 1
    /\ \A w \in Workers : wpc[w] \in {"computed", "done"} => Len(user_skill_mastery) = 1

\* a step of update_mastery on the single record of the sequential run
IsUpdateStep ==
    /\ "mastery_updated" \in learning_events'
    /\ user_skill_mastery' # user_skill_mastery
    /\ Len(user_skill_mastery') = 1

\* the record the update read (the default record if it had to create one)
RecordBefore == IF Len(user_skill_mastery) = 0 THEN DefaultRecord ELSE user_skill_mastery[1]

\* C18: after every update_mastery the record's plateau_flag is true iff the
\* post-update total_attempts >= 10 and |velocity| < 0.02, velocity being the new
\* mastery minus the old mastery of that update; the flag is recomputed on each
\* update, so it is cleared again when the condition stops holding.
C18_PlateauFlag ==
    [][IsUpdateStep =>
          LET old == RecordBefore
              new == user_skill_mastery'[1]
              answered_right == new.correct_attempts = old.correct_attempts + 1
              exact == NewMastery(old, answered_right)   \* new mastery = fl + num/den
              delta == exact.fl - old.mastery_probability \* floor of the velocity, in 1e-4
              small == /\ delta < 200
                       /\ (delta > -200 \/ (delta = -200 /\ exact.num > 0))
          IN /\ new.total_attempts = old.total_attempts + 1
             /\ new.plateau_flag <=> (new.total_attempts >= 10 /\ small)]_vars

\* C18 witness: an update past the tenth attempt moved the mastery by more than
\* 0.02 and left the flag cleared, the answers before it all right (the tenth
\* update had set the flag at the mastery bound)
C18_Witness ==
    /\ "mastery_updated" \in learning_events
    /\ Len(user_skill_mastery) = 1
    /\ user_skill_mastery[1].total_attempts = 11
    /\ user_skill_mastery[1].correct_attempts = 10
    /\ user_skill_mastery[1].learning_velocity <= -200
    /\ ~user_skill_mastery[1].plateau_flag

\* C19: a plateau_detected learning event is emitted only on the first transition
\* into plateau, by an update for which plateau_flag was false before and is true
\* after; consecutive updates that remain in plateau do not emit it again.
C19_PlateauEventOnTransition ==
    [][(IsUpdateStep /\ "plateau_detected" \in learning_events') =>
          (~RecordBefore.plateau_flag /\ user_skill_mastery'[1].plateau_flag)]_vars

\* the Bayesian denominator of an update of record rec is 0
ZeroDenominator(rec, answered_right) ==
    IF answered_right
    THEN rec.mastery_probability * (100 - rec.slip_probability)
            + (10000 - rec.mastery_probability) * rec.guess_probability = 0
    ELSE rec.mastery_probability * rec.slip_probability
            + (10000 - rec.mastery_probability) * (100 - rec.guess_probability) = 0

AnsweredRight == user_skill_mastery'[1].correct_attempts = RecordBefore.correct_attempts + 1

\* the stored mastery of the step is on the right side of the mastery the other
\* answer would have given for the same record
CorrectNotBelowIncorrect ==
    /\ AnsweredRight =>
          user_skill_mastery'[1].mastery_probability
             >= UpdatedRecord(RecordBefore, FALSE).mastery_probability
    /\ ~AnsweredRight =>
          user_skill_mastery'[1].mastery_probability
             <= UpdatedRecord(RecordBefore, TRUE).mastery_probability

-----------------------------------------------------------------------------
(* Claims on the scheduler *)

\* a is allowed to stand before b: higher priority, then lower mastery, then
\* more days since practiced
RanksBefore(a, b) ==
    \/ a.priority_score > b.priority_score
    \/ /\ a.priority_score = b.priority_score
       /\ \/ a.mastery_gap > b.mastery_gap
          \/ a.mastery_gap = b.mastery_gap /\ a.days_since_study >= b.days_since_study

\* C22: get_top_topics returns the skills in descending priority, equal
\* priorities by lower mastery first and then by more days since practiced,
\* and get_next_topic returns the first skill of this order (None for an
\* empty map).
C22_PriorityOrderWithTieBreaks ==
    /\ top_topics.called =>
          \A i \in 1..Len(top_topics.value) : \A j \in 1..Len(top_topics.value) :
              i < j => RanksBefore(top_topics.value[i], top_topics.value[j])
    /\ next_topic.called =>
          /\ (next_topic.value = <<>>) <=> (masteries = <<>>)
          /\ next_topic.value # <<>> =>
                \A i \in 1..Len(masteries) :
                    RanksBefore(next_topic.value[1], calculate_priority(masteries[i]))

\* C22, the part the code keeps: descending priority score, None for an empty map
C22_DescendingPriority ==
    /\ top_topics.called =>
          \A i \in 1..Len(top_topics.value) : \A j \in 1..Len(top_topics.value) :
              i < j => top_topics.value[i].priority_score >= top_topics.value[j].priority_score
    /\ next_topic.called =>
          /\ (next_topic.value = <<>>) <=> (masteries = <<>>)
          /\ next_topic.value # <<>> =>
                \A i \in 1..Len(masteries) :
                    next_topic.value[1].priority_score >= calculate_priority(masteries[i]).priority_score

\* C22 witness: two skills of equal priority and different mastery were ranked
C22_Witness ==
    /\ top_topics.called
    /\ Len(top_topics.value) >= 2
    /\ top_topics.value[1].priority_score = top_topics.value[2].priority_score
    /\ top_topics.value[1].mastery_gap < top_topics.value[2].mastery_gap
    /\ top_topics.value[1].priority_score > 0

-----------------------------------------------------------------------------
(* Claims on study plans and their batches *)

\* C23: whenever the focus topics have positive total priority, the per-topic
\* question counts of generate_next_batch sum exactly to 25 x days: no question
\* lost to rounding down is lost.
C23_DistributionSumsToVolume ==
    (packed /\ SumValues(focus_topics) > 0) =>
        SumValues(topic_distribution) = QUESTIONS_PER_SESSION * target_total_sessions

\* the practice_sessions rows of a plan, in the order of their insertion
RowsOfPlan(schedule, study_plan_id) ==
    SelectSeq(schedule, LAMBDA row : row.study_plan_id = study_plan_id)

\* the sessions of a new plan's first batch start the day after plan start, are
\* dated in non-decreasing order and lie within the batch's day range
FirstBatchDates(plan, rows) ==
    /\ rows # <<>> => rows[1].scheduled_date = plan.start_date + 1
    /\ \A i \in 1..Len(rows) : \A j \in 1..Len(rows) :
          i < j => rows[i].scheduled_date <= rows[j].scheduled_date
    /\ \A i \in 1..Len(rows) : rows[i].scheduled_date <= plan.start_date + FIRST_BATCH_DAYS

\* C26: the first session of a new plan's first batch is scheduled on the plan's
\* start date + 1 day, the scheduled dates are non-decreasing in session order,
\* and every date is at most start + total_days.
C26_FirstBatchStartsDayAfterPlanStart ==
    [][Len(study_plans') = Len(study_plans) + 1 =>
          FirstBatchDates(study_plans'[Len(study_plans')],
                          RowsOfPlan(session_schedule', Len(study_plans')))]_vars

\* C26, the part the code keeps: non-decreasing dates
C26_FirstBatchDatesNonDecreasing ==
    [][Len(study_plans') = Len(study_plans) + 1 =>
          LET rows == RowsOfPlan(session_schedule', Len(study_plans'))
          IN \A i \in 1..Len(rows) : \A j \in 1..Len(rows) :
                 i < j => rows[i].scheduled_date <= rows[j].scheduled_date]_vars

\* C29: within one study plan the practice sessions have pairwise distinct
\* session_number values after any number of batch generations.
C29_DistinctSessionNumbers ==
    \A i \in 1..Len(session_schedule) : \A j \in 1..Len(session_schedule) :
        (i # j /\ session_schedule[i].study_plan_id = session_schedule[j].study_plan_id)
            => session_schedule[i].session_number # session_schedule[j].session_number

\* the plans get_study_plan_by_user can return: the user's rows with is_active
ActivePlans == {k \in 1..Len(study_plans) : study_plans[k].is_active}

\* C28: after any sequence of generate_study_plan calls for one user, two calls
\* with interleaved deactivate and insert steps included, at most one of the
\* user's study plans is active, and it is the most recently created one.
C28_OneActivePlan ==
    (\A w \in Workers : plan_pc[w] \in {"idle", "done"}) =>
        /\ Cardinality(ActivePlans) <= 1
        /\ study_plans # <<>> => ActivePlans = {Len(study_plans)}

\* C28 for calls that run one after the other
C28_OneActivePlanSequential == ActivePlans \subseteq {Len(study_plans)}

-----------------------------------------------------------------------------
(* Claims on the packer's target and its even split *)

\* C24: with a target session count the packer returns at most
\* target_total_sessions sessions, for every allocation and every target >= 1.
C24_AtMostTargetSessions ==
    (packed /\ target_total_sessions >= 1) => Len(all_sessions) <= target_total_sessions

\* the sections that have questions in the allocation
SectionsPresent ==
    {section \in {"math", "reading_writing"} :
        SumValues(SectionDistribution(topic_distribution, section)) > 0}

\* C24 with one session granted to every section present
C24_AtMostTargetOrOnePerSection ==
    (packed /\ target_total_sessions >= 1) =>
        Len(all_sessions) <= Max(target_total_sessions, Cardinality(SectionsPresent))

\* the returned sessions of one section, in their order
SessionsOfSection(section) ==
    SelectSeq(all_sessions, LAMBDA session : Section(session[1].topic_id) = section)

\* C25: without a target cap each topic's count is spread evenly over the
\* section's final numSessions sessions: session i (from 0) gets
\* count // numSessions questions plus one more iff i < count mod numSessions;
\* the allocation {A: 47, B: 3} yields exactly 3 sessions, A split 16/16/15 and
\* B split 1/1/1.
C25_EvenSplit ==
    (packed /\ target_total_sessions = 0) =>
        /\ \A t \in Topics :
              LET sessions == SessionsOfSection(Section(t))
                  numSessions == Len(sessions)
                  count == topic_distribution[t]
              IN \A i \in 1..numSessions :
                    PackedQuestions(<<sessions[i]>>, t) =
                        count \div numSessions + (IF i - 1 < count % numSessions THEN 1 ELSE 0)
        /\ topic_distribution = ScenarioB =>
              all_sessions =
                 <<<<[topic_id |-> "m1", num_questions |-> 16], [topic_id |-> "m2", num_questions |-> 1]>>,
                   <<[topic_id |-> "m1", num_questions |-> 16], [topic_id |-> "m2", num_questions |-> 1]>>,
                   <<[topic_id |-> "m1", num_questions |-> 15], [topic_id |-> "m2", num_questions |-> 1]>>>>

\* C25 witness: the allocation {A: 47, B: 3} was packed without a target into
\* three sessions, the first with 16 + 1 questions
C25_Witness ==
    /\ packed
    /\ target_total_sessions = 0
    /\ topic_distribution = ScenarioB
    /\ Len(all_sessions) = 3
    /\ SessionCount(all_sessions[1]) = 17
    /\ SessionCount(all_sessions[3]) = 16


-----------------------------------------------------------------------------
(* Claims on one run of the generation and on the two modules of a section   *)

\* the module has had its run of _generate_module_questions
Generated(m) ==
    IF module_number(m) = 1
    THEN stage1_cells[section_prefix(m)] # <<>>
    ELSE next_difficulty[section_prefix(m)] # "none"

\* the active questions with a topic and a difficulty of E, M or H
AvailableQuestions == SumCells(BankCells(question_bank))

C30_NoSharedQuestions ==
    \A section \in Sections : shared_rows[section] = 0

=============================================================================
